---- MODULE Spec2Model ----
(***************************************************************************)
(* ChatGuide orchestration core.                                           *)
(*                                                                         *)
(* Spec      the lean ChatGuide of python/chatguide/chatguide.py: the      *)
(*           chat() retry loop and _process_reply over the single state    *)
(*           dictionary {data, messages, block, completed, ...}.           *)
(* FairSpec  Spec with weak fairness on the steps inside a chat() call.    *)
(* SpecReload  Spec with the host's reload_config calls.                   *)
(* SpecTask  Task objects (python/chatguide/core/task.py) under direct     *)
(*           complete(key, value) calls.                                   *)
(* SpecAdv   the orchestrator of old/chatguide_advanced.py: sub-turns      *)
(*           (_single_turn / _process_reply) over Plan, State, tone and    *)
(*           Adjustments, with a model whose first answer is well formed   *)
(*           and a config without tools.                                   *)
(* SpecPlan  SpecAdv with the host's calls of the Plan methods             *)
(*           (python/src/chatguide/plan.py) between the chat calls.        *)
(* SpecTalk  SpecAdv with the user's messages added between the chat calls. *)
(* SpecChat  SpecAdv with a model whose answers may be malformed (the      *)
(*           retry loop of _single_turn), replies that call tools, and the *)
(*           host rendering the pending UI tools.                          *)
(* SpecV2    the StateMachine / ChatGuideV2 of chatguide.py under update() *)
(*           calls: batches of task keys with a status per key.            *)
(* SpecTools SpecAdv with a model that calls tools, whose handlers may     *)
(*           raise.                                                        *)
(* SpecIso   two ChatGuide instances in one process: the objects they hold  *)
(*           by reference.                                                 *)
(* SpecSrc   the ChatGuide of python/src/chatguide/chatguide.py under chat  *)
(*           calls and restores from its checkpoints.                      *)
(* SpecRestore  SpecAdv's turns with the host's from_checkpoint and the    *)
(*           load_config that gives the restored instance its config.      *)
(* SpecDone  SpecAdv's chat calls and the host's handle_tool_response,     *)
(*           on conversations that are complete or not.                    *)
(* SpecRead  SpecTools with the host's get_state calls.                    *)
(* SpecValidate  one call of Task.validate on a JSON value.                *)
(* SpecNormalize  steps 1 and 2 of the lean _process_reply (whitelist and  *)
(*           mandatory entries) on one reply.                              *)
(* SpecState a ChatGuide of old/chatguide_advanced.py built without a      *)
(*           config, under load_config and State.set calls.                *)
(***************************************************************************)
EXTENDS Integers, Naturals, Sequences, FiniteSets, TLC

VARIABLES
    \* ---- python/chatguide/chatguide.py: self.state ----
    data,          \* state["data"]: key -> value, ABSENT when the key is not in the dict
    messages,      \* state["messages"]
    block,         \* state["block"]
    completed,     \* state["completed"]
    recent_keys,   \* state["recent_keys"]
    last_error,    \* state["last_error"]
    \* ---- static config chosen at construction ----
    silent,        \* config["tasks"][t]["silent"]
    \* ---- position inside chat() ----
    pc,            \* "idle" (outside chat), "loop" (top of while), "check" (line 138)
    retry_count,   \* local retry_count of chat()
    task,          \* local task of the iteration (task id, or None)
    is_silent,     \* local is_silent of the iteration
    reply_text,    \* reply.assistant_reply of the iteration's reply
    rejected,      \* keys of the reply that the whitelist rejected (the [WARNING] lines)
    ret,           \* what the last chat() call returned: "reply", "None", or "pending"
    \* ---- history of the run (observations, never read by the program) ----
    attempts,      \* task -> number of model replies processed while it was current
    forced,        \* tasks completed by the force-completion branch of chat()
    nullSeen,      \* tasks for which, in this chat() call, a reply held no value for an expected key
    \* ---- python/chatguide/core/task.py: Task objects called directly ----
    tasks,         \* task id -> Task object
    calls,         \* task id -> the (key, value) arguments of the complete() calls made on it (observation)
    \* ---- old/chatguide_advanced.py: the orchestrator's members ----
    plan,          \* self.plan: [blocks, current_index]; a block is a sequence of Task objects
    state,         \* self.state: key -> value, ABSENT when the key is not set
    tone,          \* self.tone
    adjustments,   \* self.adjustments._adjustments: [name, condition, actions, fired]
    history,       \* self.context.history: Messages [role, content]
    exec_status,   \* self.execution.status
    last_fired_adjustments,   \* self._last_fired_adjustments
    \* ---- history of the orchestrator's run (observations) ----
    fired_names,   \* what adjustments.evaluate returned in the last sub-turn
    exec_count,    \* adjustment index -> number of times its actions were executed
    last_op,       \* the last operation: its name, current_index before it, whether it called jump_to
    turns,         \* sub-turns processed
    plan_ops,      \* Plan methods called by the host
    \* ---- old/chatguide_advanced.py: chat_async, _single_turn, the tool executor ----
    chat_pc,       \* "idle" (outside chat_async) or "running" (inside its while loop)
    model_calls,   \* run_llm calls made by the last sub-turn (observation)
    degraded,      \* the last sub-turn processed the "internal error" reply
    pending_ui_tools,  \* self.tool_executor._pending_ui_tools
    \* ---- chatguide.py: StateMachine and ChatGuideV2 ----
    current_state, \* state_machine.current_state
    task_status,   \* state_machine.task_status
    task_attempts, \* state_machine.task_attempts
    task_results,  \* ChatGuideV2.task_results, in insertion order
    \* ---- history of the state machine's run (observations) ----
    reset_tasks,   \* the task keys the last update's info update reset
    updates,       \* number of update() calls
    \* ---- old/chatguide_advanced.py: the audit log and the State's reference to it ----
    audit_log,     \* self.audit._entries
    state_audit,   \* whether self.state._audit_log is the audit log (None otherwise)
    \* ---- history of the direct State.set calls (observations) ----
    last_set,      \* the last State.set call: key, old value, new value, source task
    sets,          \* number of State.set, load_config and handle_tool_response calls by the host
    \* ---- python/src/chatguide: the ExecutionState's own list ----
    exec_completed,   \* self.execution._completed
    restores,      \* number of from_checkpoint calls by the host (observation)
    ck_fired,      \* fired_adjustments of the checkpoint the conversation was restored from (observation)
    \* ---- tool failures (old/chatguide_advanced.py) ----
    errors,        \* self._errors
    last_turn,     \* reply and tool calls of the last sub-turn (observation)
    returned_ui_tools, \* what the last get_pending_ui_tools() returned (observation)
    \* ---- two instances in one process (old/chatguide_advanced.py) ----
    global_registry,   \* tool_executor._global_registry: tool id -> type
    cgs,           \* per instance: its State, the list its tone is, its UI queue
    tone_lists,    \* the list objects that tones are
    iso_op,        \* the last operation on an instance (observation)
    iso_ops,       \* number of operations on the instances (observation)
    \* ---- a call of Task.validate (python/chatguide/core/task.py) ----
    v_expects,     \* self.expects
    v_key,         \* the key argument
    v_value,       \* the value argument
    v_out,         \* what the call returned or raised
    \* ---- steps 1 and 2 of the lean _process_reply on one reply ----
    n_task,        \* current_task_id
    n_results,     \* reply.task_results
    n_out          \* complete_results, or NotNormalized before the steps ran

leanVars == << data, messages, block, completed, recent_keys, last_error, silent,
               pc, retry_count, task, is_silent, reply_text, rejected, ret,
               attempts, forced, nullSeen >>

taskVars == << tasks, calls >>

advVars == << plan, state, tone, adjustments, history, exec_status,
              last_fired_adjustments, fired_names, exec_count, last_op, turns, plan_ops,
              chat_pc, model_calls, degraded, pending_ui_tools >>

smVars == << current_state, task_status, task_attempts, task_results, reset_tasks, updates >>

auditVars == << audit_log, state_audit, last_set, sets >>

srcVars == << exec_completed, restores, ck_fired >>

toolVars == << errors, last_turn, returned_ui_tools >>

isoVars == << global_registry, cgs, tone_lists, iso_op, iso_ops >>

valVars == << v_expects, v_key, v_value, v_out, n_task, n_results, n_out >>

vars == << leanVars, taskVars, advVars, smVars, auditVars, srcVars, toolVars, isoVars, valVars >>

(***************************************************************************)
(* Bounds of the model.                                                    *)
(***************************************************************************)
\* entries in one reply's task_results
MaxResults == 2
\* messages in the history before the caller stops
MaxMessages == 2
\* entries in one reply's task_results, orchestrator
MaxTaskResults == 1
\* complete() calls made on one Task object
MaxCalls == 2
\* sub-turns of the orchestrator
MaxTurns == 2
\* Plan methods called by the host
MaxPlanOps == 1
\* blocks in the plan when the host inserts one
MaxBlocks == 3
\* update() calls on the state machine
MaxUpdates == 2
\* entries in data["tasks"] of one model output
MaxReplyResults == 2
\* State.set, load_config and handle_tool_response calls by the host
MaxSets == 3
\* messages of the user in the history
MaxUserMessages == 2
\* from_checkpoint calls by the host
MaxRestores == 1
\* operations of the host on the two instances
MaxIsoOps == 4

(***************************************************************************)
(* Values.                                                                 *)
(***************************************************************************)
None == "None"
NULL == "null"        \* TaskResult.value = None
ABSENT == "absent"    \* key not present in state["data"]
NoError == [value |-> "", key |-> "", msg |-> ""]     \* last_error = None
NoBound == -1
NaN == -2             \* float(value) raised ValueError

\* chat(max_retries=2)
max_retries == 2
\* _single_turn: max_retries
single_turn_max_retries == 2

Values == {"0", "25", "150", "HAPPY"}

\* the values the model is let return for each key
ValuesFor(k) ==
    CASE k = "user_name" -> {"HAPPY"}
      [] k = "mood" -> {"HAPPY", "25"}
      [] k = "user_age" -> {"0", "25", "150", "HAPPY"}
      [] OTHER -> {"25"}

\* float(value)
FloatOf(v) ==
    CASE v = "0" -> 0
      [] v = "25" -> 25
      [] v = "150" -> 150
      [] OTHER -> NaN

\* str.lower()
Lower(v) == IF v = "HAPPY" THEN "happy" ELSE v

(***************************************************************************)
(* Config: plan, tasks, expects (the config of test_minimal_v1 extended    *)
(* with a second task in the block and a task with no expects).            *)
(***************************************************************************)
Tasks == {"get_name", "get_info", "confirm"}

Blocks == << <<"get_name", "get_info">>, <<"confirm">> >>

Exp(k, t, lo, hi, ch) == [key |-> k, type |-> t, min |-> lo, max |-> hi, choices |-> ch]

Expects(t) ==
    CASE t = "get_name" -> << Exp("user_name", "string", NoBound, NoBound, {}) >>
      [] t = "get_info" -> << Exp("mood", "enum", NoBound, NoBound, {"happy", "sad"}),
                              Exp("user_age", "number", 1, 120, {}) >>
      [] OTHER -> << >>

Keys == {"user_name", "mood", "user_age", "extra"}

\* ExpectDefinition.validate_value
validate_value(exp, value) ==
    IF exp.type = "number" THEN
        LET num == FloatOf(value) IN
        IF num = NaN THEN [ok |-> FALSE, err |-> "not a valid number"]
        ELSE IF exp.min # NoBound /\ num < exp.min THEN [ok |-> FALSE, err |-> "below minimum"]
        ELSE IF exp.max # NoBound /\ num > exp.max THEN [ok |-> FALSE, err |-> "above maximum"]
        ELSE [ok |-> TRUE, err |-> ""]
    ELSE IF exp.type = "enum" THEN
        IF exp.choices # {} /\ Lower(value) \notin {Lower(c) : c \in exp.choices}
        THEN [ok |-> FALSE, err |-> "must be one of"]
        ELSE [ok |-> TRUE, err |-> ""]
    ELSE [ok |-> TRUE, err |-> ""]

(***************************************************************************)
(* State helpers of ChatGuide.                                             *)
(***************************************************************************)
\* _current_block_tasks
CurrentBlockTasks(b) == IF b < Len(Blocks) THEN Blocks[b + 1] ELSE << >>

\* _current_task_id
CurrentTaskId(b, done) ==
    IF b >= Len(Blocks) THEN None
    ELSE LET blk == Blocks[b + 1]
             pend == { i \in 1..Len(blk) : blk[i] \notin done }
         IN IF pend = {} THEN None
            ELSE blk[CHOOSE i \in pend : \A j \in pend : i <= j]

\* a whitelist taken over every task of the config instead of the current one
ExpectedKeysOfAllTasks(tid) ==
    IF tid = None THEN << >>
    ELSE << "user_name", "mood", "user_age" >>

\* expected_keys = [exp.key for exp in expects]
ExpectedKeys(tid) ==
    IF tid = None THEN << >>
    ELSE [ i \in 1..Len(Expects(tid)) |-> Expects(tid)[i].key ]

KeySet(ks) == { ks[i] : i \in 1..Len(ks) }

\* any() where the code has all()
TaskIsCompleteAny(tid, d) ==
    LET task_def == IF tid \in Tasks THEN Expects(tid) ELSE << >>
    IN \E i \in 1..Len(task_def) : d[task_def[i].key] \notin {ABSENT, NULL}

\* _task_is_complete
TaskIsComplete(tid, d) ==
    LET task_def == IF tid \in Tasks THEN Expects(tid) ELSE << >>
    IN \A i \in 1..Len(task_def) : d[task_def[i].key] \notin {ABSENT, NULL}

\* _block_complete
BlockComplete(b, done) ==
    \A i \in 1..Len(CurrentBlockTasks(b)) : CurrentBlockTasks(b)[i] \in done

\* is_finished
IsFinished == block >= Len(Blocks)

(***************************************************************************)
(* _process_reply.                                                         *)
(***************************************************************************)
\* step 1: the strict key whitelist
FilterResults(results, expected_keys) ==
    SelectSeq(results, LAMBDA tr : tr.key \in KeySet(expected_keys))

\* result_dict = {tr.key: tr for tr in filtered_results}: the last entry of a key wins
InResultDict(filtered, k) == \E i \in 1..Len(filtered) : filtered[i].key = k

ResultDict(filtered, k) ==
    LET idx == { i \in 1..Len(filtered) : filtered[i].key = k }
    IN filtered[CHOOSE i \in idx : \A j \in idx : j <= i]

\* a step 2 that keeps the filtered entries and synthesizes none
CompleteResultsUnpadded(filtered, expected_keys) == filtered

\* step 2: one result per expected key, in expects order
CompleteResults(filtered, expected_keys) ==
    [ i \in 1..Len(expected_keys) |->
        IF InResultDict(filtered, expected_keys[i])
        THEN ResultDict(filtered, expected_keys[i])
        ELSE [key |-> expected_keys[i], value |-> NULL] ]

\* next((e for e in expects if e.key == tr.key), None)
HasMatchingExp(expects, k) == \E i \in 1..Len(expects) : expects[i].key = k

MatchingExp(expects, k) ==
    LET idx == { i \in 1..Len(expects) : expects[i].key = k }
    IN expects[CHOOSE i \in idx : \A j \in idx : i <= j]

\* step 3: validation and update, stopping at the first invalid value
RECURSIVE ValidateAndUpdate(_, _, _, _)
ValidateAndUpdate(results, i, expects, acc) ==
    IF i > Len(results) THEN acc
    ELSE LET tr == results[i] IN
         IF tr.value = NULL THEN ValidateAndUpdate(results, i + 1, expects, acc)
         ELSE LET res == IF HasMatchingExp(expects, tr.key)
                         THEN validate_value(MatchingExp(expects, tr.key), tr.value)
                         ELSE [ok |-> TRUE, err |-> ""]
              IN IF res.ok
                 THEN ValidateAndUpdate(results, i + 1, expects,
                        [acc EXCEPT !.data[tr.key] = tr.value,
                                    !.recent_keys =
                                        IF \E j \in 1..Len(@) : @[j] = tr.key
                                        THEN @ ELSE Append(@, tr.key)])
                 ELSE [acc EXCEPT !.last_error =
                        [value |-> tr.value, key |-> tr.key, msg |-> res.err]]

\* the whole of _process_reply: the new data, recent_keys, last_error, completed, block
ProcessReply(r, d, rk, done, b) ==
    LET tid == CurrentTaskId(b, done) IN
    IF tid = None
    THEN [data |-> d, recent_keys |-> rk, last_error |-> NoError,
          completed |-> done, block |-> b]
    ELSE LET expected_keys == ExpectedKeys(tid)
             filtered == FilterResults(r.task_results, expected_keys)
             complete_results == CompleteResults(filtered, expected_keys)
             upd == ValidateAndUpdate(complete_results, 1, Expects(tid),
                        [data |-> d, recent_keys |-> rk, last_error |-> NoError])
             isDone == TaskIsComplete(tid, upd.data)
             done2 == IF isDone THEN done \cup {tid} ELSE done
         IN [data |-> upd.data, recent_keys |-> upd.recent_keys,
             last_error |-> upd.last_error,
             completed |-> done2,
             block |-> IF isDone /\ BlockComplete(b, done2) THEN b + 1 ELSE b]

(***************************************************************************)
(* What the model may return (the external collaborator).                  *)
(***************************************************************************)
\* a reply holds at most one entry per key (parse_llm_response drops repeats):
\* for each key no entry, an entry with null, or an entry with a value
ReplyChoices == { f \in [Keys -> Values \cup {NULL, ABSENT}] :
                    /\ \A k \in Keys : f[k] \in ValuesFor(k) \cup
                            (IF k = "extra" THEN {ABSENT} ELSE {NULL, ABSENT})
                    /\ Cardinality({ k \in Keys : f[k] # ABSENT }) <= MaxResults }

KeyOrder == << "extra", "user_age", "mood", "user_name" >>

RECURSIVE ResultsOf(_, _)
ResultsOf(f, i) ==
    IF i > Len(KeyOrder) THEN << >>
    ELSE IF f[KeyOrder[i]] = ABSENT THEN ResultsOf(f, i + 1)
    ELSE << [key |-> KeyOrder[i], value |-> f[KeyOrder[i]]] >> \o ResultsOf(f, i + 1)

\* _call_llm: a parsed reply, or the "Error: ..." reply with no results when the call raised
Replies ==
    { [assistant_reply |-> "ok", task_results |-> ResultsOf(f, 1)] : f \in ReplyChoices }
    \cup { [assistant_reply |-> "Error", task_results |-> << >>] }

\* the keys of reply r that the whitelist of tid rejects
RejectedKeys(r, tid) ==
    { r.task_results[i].key : i \in 1..Len(r.task_results) } \ KeySet(ExpectedKeys(tid))

\* the expected keys of tid for which reply r carries no value
NullKeys(r, tid) ==
    LET cr == CompleteResults(FilterResults(r.task_results, ExpectedKeys(tid)), ExpectedKeys(tid))
    IN { cr[i].key : i \in { j \in 1..Len(cr) : cr[j].value = NULL } }

(***************************************************************************)
(* Task (python/chatguide/core/task.py).                                   *)
(***************************************************************************)
NoResult == [key |-> "", value |-> ""]     \* result = None

\* Task(id=..., expects=..., silent=...): status "pending", result None
NewTask(id, expects, is_sil) ==
    [id |-> id, expects |-> expects, silent |-> is_sil, status |-> "pending", result |-> NoResult]

\* Task.is_completed
is_completed(t) == t.status = "completed"

\* a complete() that stores the result whatever the status is
completeOverwriting(t, key, value) ==
    [t EXCEPT !.status = "completed", !.result = [key |-> key, value |-> value]]

\* Task.complete
complete(t, key, value) ==
    IF t.status = "completed" THEN t
    ELSE [t EXCEPT !.status = "completed", !.result = [key |-> key, value |-> value]]

\* Task.get_expected_keys
get_expected_keys(t) == { t.expects[i].key : i \in 1..Len(t.expects) }

\* Task.validate: the first expectation for the key decides; a key that is
\* not in expects is accepted
validate(t, key, value) ==
    IF HasMatchingExp(t.expects, key)
    THEN validate_value(MatchingExp(t.expects, key), value)
    ELSE [ok |-> TRUE, err |-> ""]

\* a JSON value of a reply: a string, a number, a boolean or null; text is
\* the string, the decimal of the number, "True" / "False", or "None"
JsonValue(kind, text) == [kind |-> kind, text |-> text]

\* float(value) for a value that is not null: a bool is 1.0 or 0.0
FloatOfJson(value) ==
    IF value.kind = "bool" THEN (IF value.text = "True" THEN 1 ELSE 0)
    ELSE FloatOf(value.text)

\* what a call returns or raises: raised is "" when it returned (ok, err)
Returned(r) == [ok |-> r.ok, err |-> r.err, raised |-> ""]

Raised(exception) == [ok |-> FALSE, err |-> "", raised |-> exception]

\* ExpectDefinition.validate_value on any JSON value: float(None) raises
\* TypeError, which except ValueError lets through; value.lower() exists on
\* strings only and is reached when choices is not empty
validate_value_json(exp, value) ==
    IF exp.type = "number" THEN
        IF value.kind = "null" THEN Raised("TypeError")
        ELSE IF value.kind = "str" THEN Returned(validate_value(exp, value.text))
        ELSE LET num == FloatOfJson(value) IN
             IF exp.min # NoBound /\ num < exp.min
             THEN Returned([ok |-> FALSE, err |-> "below minimum"])
             ELSE IF exp.max # NoBound /\ num > exp.max
             THEN Returned([ok |-> FALSE, err |-> "above maximum"])
             ELSE Returned([ok |-> TRUE, err |-> ""])
    ELSE IF exp.type = "enum" THEN
        IF exp.choices = {} THEN Returned([ok |-> TRUE, err |-> ""])
        ELSE IF value.kind = "str" THEN Returned(validate_value(exp, value.text))
        ELSE Raised("AttributeError")
    ELSE Returned([ok |-> TRUE, err |-> ""])

NotCalled == [ok |-> FALSE, err |-> "", raised |-> "not called"]

\* Task.validate on any JSON value (python/chatguide/core/task.py)
validate_json(expects, key, value) ==
    IF HasMatchingExp(expects, key)
    THEN validate_value_json(MatchingExp(expects, key), value)
    ELSE Returned([ok |-> TRUE, err |-> ""])

(***************************************************************************)
(* Block (src/chatguide/core/block.py) and Plan                            *)
(* (python/src/chatguide/plan.py).  A plan is [blocks, current_index].     *)
(***************************************************************************)
\* Block.is_complete
is_complete(b) == \A i \in 1..Len(b) : is_completed(b[i])

\* list.insert(index, x)
ListInsert(s, index, x) ==
    LET n == Len(s)
        j0 == IF index < 0 THEN index + n ELSE index
        j == IF j0 < 0 THEN 0 ELSE IF j0 > n THEN n ELSE j0
    IN SubSeq(s, 1, j) \o << x >> \o SubSeq(s, j + 1, n)

\* list.pop(index), 0 <= index < len
ListPop(s, index) == SubSeq(s, 1, index) \o SubSeq(s, index + 2, Len(s))

\* Plan.get_current_block is not None
HasCurrentBlock(p) == p.current_index < Len(p.blocks)

\* Plan.get_current_block
get_current_block(p) == p.blocks[p.current_index + 1]

\* Plan.advance
advance(p) ==
    IF p.current_index < Len(p.blocks) THEN [p EXCEPT !.current_index = @ + 1] ELSE p

\* Plan.jump_to
jump_to(p, index) ==
    IF 0 <= index /\ index < Len(p.blocks) THEN [p EXCEPT !.current_index = index] ELSE p

\* Plan.insert_block
insert_block(p, index, b) == [p EXCEPT !.blocks = ListInsert(@, index, b)]

\* a remove_block that moves the cursor back with the blocks behind it
remove_blockShifting(p, index) ==
    IF 0 <= index /\ index < Len(p.blocks)
    THEN [blocks |-> ListPop(p.blocks, index),
          current_index |-> IF index < p.current_index THEN p.current_index - 1
                            ELSE p.current_index]
    ELSE p

\* Plan.remove_block
remove_block(p, index) ==
    IF 0 <= index /\ index < Len(p.blocks)
    THEN [p EXCEPT !.blocks = ListPop(@, index)]
    ELSE p

\* Plan.replace_block
replace_block(p, index, b) ==
    IF 0 <= index /\ index < Len(p.blocks)
    THEN [p EXCEPT !.blocks[index + 1] = b]
    ELSE p

\* Plan.is_finished
is_finished(p) == p.current_index >= Len(p.blocks)

\* Plan.get_task / Block.get_task: position <<block, task>> of the first Task
\* with the id, << 0, 0 >> when there is none
TaskPositions(p, task_id) ==
    UNION { { << b, i >> : i \in { j \in 1..Len(p.blocks[b]) : p.blocks[b][j].id = task_id } } :
            b \in 1..Len(p.blocks) }

get_task(p, task_id) ==
    LET ps == TaskPositions(p, task_id) IN
    IF ps = {} THEN << 0, 0 >>
    ELSE CHOOSE bt \in ps : \A o \in ps : bt[1] < o[1] \/ (bt[1] = o[1] /\ bt[2] <= o[2])

\* ChatGuide.get_current_task
get_current_task(p) ==
    IF is_finished(p) THEN None
    ELSE LET b == get_current_block(p)
             pend == { i \in 1..Len(b) : ~is_completed(b[i]) }
         IN IF pend = {} THEN None
            ELSE b[CHOOSE i \in pend : \A j \in pend : i <= j].id

(***************************************************************************)
(* State (src/chatguide/state.py).                                         *)
(***************************************************************************)
\* State.set
state_set(st, key, value) == [st EXCEPT ![key] = value]

\* AuditLog.log: the entry it appends (the timestamp is left out)
AuditEntry(key, old_value, new_value, source_task) ==
    [key |-> key, old_value |-> old_value, new_value |-> new_value,
     source_task |-> source_task]

\* State.set, the audit part: attached is whether the State object holds an
\* audit log; a key that is not set reads as None (ABSENT)
set_audit(log, attached, st, key, value, source_task) ==
    IF attached /\ st[key] # value
    THEN Append(log, AuditEntry(key, st[key], value, source_task))
    ELSE log

(***************************************************************************)
(* Adjustments (python/chatguide/adjustments.py).                          *)
(***************************************************************************)
\* a condition: a bool, a string, or a node of the declarative AST
Cond(op, args, key, value, num) ==
    [op |-> op, args |-> args, key |-> key, value |-> value, num |-> num]

CondBool(b) == Cond(IF b THEN "True" ELSE "False", << >>, "", "", 0)
CondStr == Cond("str", << >>, "", "", 0)
CondAll(cs) == Cond("all", cs, "", "", 0)
CondAny(cs) == Cond("any", cs, "", "", 0)
CondNot(c) == Cond("not", << c >>, "", "", 0)
CondHas(k) == Cond("has", << >>, k, "", 0)
CondEq(k, v) == Cond("eq", << >>, k, v, 0)
CondGt(k, n) == Cond("gt", << >>, k, "", n)

\* Adjustment._eval_condition: "T", "F", or "E" when the evaluation raises
RECURSIVE eval_condition(_, _)
RECURSIVE EvalAll(_, _, _)
RECURSIVE EvalAny(_, _, _)

\* all(...) over the generator: stops at the first false one, a raise propagates
EvalAll(cs, i, st) ==
    IF i > Len(cs) THEN "T"
    ELSE LET r == eval_condition(cs[i], st)
         IN IF r = "T" THEN EvalAll(cs, i + 1, st) ELSE r

\* any(...) over the generator: stops at the first true one, a raise propagates
EvalAny(cs, i, st) ==
    IF i > Len(cs) THEN "F"
    ELSE LET r == eval_condition(cs[i], st)
         IN IF r = "F" THEN EvalAny(cs, i + 1, st) ELSE r

eval_condition(cond, st) ==
    CASE cond.op = "all" -> EvalAll(cond.args, 1, st)
      [] cond.op = "any" -> EvalAny(cond.args, 1, st)
      [] cond.op = "not" ->
            LET r == eval_condition(cond.args[1], st)
            IN IF r = "E" THEN "E" ELSE IF r = "T" THEN "F" ELSE "T"
      [] cond.op = "has" -> IF st[cond.key] # ABSENT THEN "T" ELSE "F"
      [] cond.op = "eq" -> IF st[cond.key] = cond.value THEN "T" ELSE "F"
      [] cond.op = "gt" ->
            LET val == IF st[cond.key] = ABSENT THEN 0 ELSE FloatOf(st[cond.key])
            IN IF val = NaN THEN "E" ELSE IF val > cond.num THEN "T" ELSE "F"
      [] OTHER -> "F"

\* Adjustment.evaluate_condition
evaluate_condition(cond, st) ==
    IF cond.op = "True" THEN "T"
    ELSE IF cond.op = "False" THEN "F"
    ELSE IF cond.op = "str" THEN "F"
    ELSE eval_condition(cond, st)

\* an action: a typed Action object, or (legacy) a dict with a "type"
Act(type, legacy, index, task_ids, tones, tn, key, value) ==
    [type |-> type, legacy |-> legacy, index |-> index, tasks |-> task_ids,
     tones |-> tones, tone |-> tn, key |-> key, value |-> value]

PlanJump(index) == Act("plan.jump_to", FALSE, index, << >>, << >>, "", "", "")
PlanInsertBlock(index, ids) == Act("plan.insert_block", FALSE, index, ids, << >>, "", "", "")
PlanRemoveBlock(index) == Act("plan.remove_block", FALSE, index, << >>, << >>, "", "", "")
PlanReplaceBlock(index, ids) == Act("plan.replace_block", FALSE, index, ids, << >>, "", "", "")
ToneSet(tones) == Act("tone.set", FALSE, 0, << >>, tones, "", "", "")
ToneAdd(tn) == Act("tone.add", FALSE, 0, << >>, << >>, tn, "", "")
StateSet(key, value) == Act("state.set", FALSE, 0, << >>, << >>, "", key, value)
DictAction(type, index) == Act(type, TRUE, index, << >>, << >>, "", "", "")

\* Block([Task(id=tid, description="") for tid in tasks])
BlockOf(ids) == [i \in 1..Len(ids) |-> NewTask(ids[i], << >>, FALSE)]

SeqRange(s) == { s[i] : i \in 1..Len(s) }

\* _execute_actions, one typed action; acc is [plan, state, tone, jumped]
ExecuteTyped(a, acc) ==
    CASE a.type = "plan.insert_block" ->
            [acc EXCEPT !.plan = insert_block(@, a.index, BlockOf(a.tasks))]
      [] a.type = "plan.remove_block" -> [acc EXCEPT !.plan = remove_block(@, a.index)]
      [] a.type = "plan.replace_block" ->
            [acc EXCEPT !.plan = replace_block(@, a.index, BlockOf(a.tasks))]
      [] a.type = "plan.jump_to" ->
            [acc EXCEPT !.plan = jump_to(@, a.index), !.jumped = TRUE]
      [] a.type = "tone.set" -> [acc EXCEPT !.tone = a.tones]
      [] a.type = "tone.add" ->
            IF a.tone # "" /\ a.tone \notin SeqRange(acc.tone)
            THEN [acc EXCEPT !.tone = Append(@, a.tone)] ELSE acc
      [] a.type = "state.set" ->
            IF a.key # "" THEN [acc EXCEPT !.state = state_set(@, a.key, a.value)] ELSE acc
      [] OTHER -> acc

\* _execute_actions, a legacy dict action
ExecuteDict(a, acc) ==
    CASE a.type = "plan.insert_block" ->
            [acc EXCEPT !.plan = insert_block(@, a.index, BlockOf(a.tasks))]
      [] a.type = "plan.remove_block" -> [acc EXCEPT !.plan = remove_block(@, a.index)]
      [] a.type = "plan.replace_block" ->
            [acc EXCEPT !.plan = replace_block(@, a.index, BlockOf(a.tasks))]
      [] a.type = "plan.jump_to" ->
            [acc EXCEPT !.plan = jump_to(@, a.index), !.jumped = TRUE]
      [] a.type = "tone.set" -> [acc EXCEPT !.tone = a.tones]
      [] OTHER -> acc

\* Adjustments._execute_actions: a legacy dict action returns from the loop
RECURSIVE execute_actions(_, _, _)
execute_actions(actions, j, acc) ==
    IF j > Len(actions) THEN acc
    ELSE IF actions[j].legacy THEN ExecuteDict(actions[j], acc)
    ELSE execute_actions(actions, j + 1, ExecuteTyped(actions[j], acc))

\* an evaluation that leaves the adjustment armed after it has fired
MarkFiredSkipped(adj) == adj

\* adj.fired = True
MarkFired(adj) == [adj EXCEPT !.fired = TRUE]

\* an evaluation that stops at the first adjustment that fires
NextAfterFirstMatch(i, matched, n) == IF matched THEN n + 1 ELSE i + 1

\* for adj in self._adjustments: the loop goes on whether or not adj fired
NextAdjustment(i, matched, n) == i + 1

\* Adjustments.evaluate from adjustment i on;
\* acc is [plan, state, tone, jumped, adjustments, fired_names, exec_count]
RECURSIVE evaluate_from(_, _)
evaluate_from(i, acc) ==
    IF i > Len(acc.adjustments) THEN acc
    ELSE LET adj == acc.adjustments[i]
             matched == ~adj.fired /\ evaluate_condition(adj.condition, acc.state) = "T"
             ran == execute_actions(adj.actions, 1,
                        [plan |-> acc.plan, state |-> acc.state, tone |-> acc.tone,
                         jumped |-> acc.jumped])
             acc2 == IF matched
                     THEN [plan |-> ran.plan, state |-> ran.state, tone |-> ran.tone,
                           jumped |-> ran.jumped,
                           adjustments |-> [acc.adjustments EXCEPT ![i] = MarkFired(adj)],
                           fired_names |-> Append(acc.fired_names, i),
                           exec_count |-> [acc.exec_count EXCEPT ![i] = @ + 1]]
                     ELSE acc
         IN evaluate_from(NextAdjustment(i, matched, Len(acc.adjustments)), acc2)

\* Adjustments.evaluate
evaluate(adjs, st, p, tn, counts) ==
    evaluate_from(1, [plan |-> p, state |-> st, tone |-> tn, jumped |-> FALSE,
                      adjustments |-> adjs, fired_names |-> << >>, exec_count |-> counts])

(***************************************************************************)
(* The orchestrator of old/chatguide_advanced.py.                          *)
(***************************************************************************)
\* replies of the model: per key a value or nothing, all entries carrying the
\* same task_id ("" when the model names no task), and the corrections
TaskIdChoices == {"", "get_info", "confirm"}

Corrections == { << >>, << [key |-> "user_name", value |-> "25"] >> }

RECURSIVE AdvResultsOf(_, _, _)
AdvResultsOf(f, task_id, i) ==
    IF i = 0 THEN << >>
    ELSE LET rest == AdvResultsOf(f, task_id, i - 1)
             k == KeyOrder[i]
         IN IF f[k] = ABSENT THEN rest
            ELSE Append(rest, [task_id |-> task_id, key |-> k, value |-> f[k]])

\* the values the model is let return for each key
AdvValuesFor(k) ==
    CASE k = "user_age" -> {"25", "HAPPY"}
      [] k = "extra" -> {"25"}
      [] OTHER -> {"HAPPY"}

AdvReplies ==
    { [task_results |-> AdvResultsOf(f, tid, Len(KeyOrder)), state_corrections |-> c] :
        f \in { g \in [Keys -> Values \cup {ABSENT}] :
                    /\ \A k \in Keys : g[k] \in AdvValuesFor(k) \cup {ABSENT}
                    /\ Cardinality({ k \in Keys : g[k] # ABSENT }) <= MaxTaskResults },
        tid \in TaskIdChoices, c \in Corrections }

\* _single_turn lines 379-384: the sub-turn is silent when a result names a silent Task
is_this_silent(r, p) ==
    \E i \in 1..Len(r.task_results) :
        LET pos == get_task(p, r.task_results[i].task_id)
        IN pos # << 0, 0 >> /\ p.blocks[pos[1]][pos[2]].silent

\* _process_reply step 0: explicit state corrections
RECURSIVE apply_corrections(_, _, _)
apply_corrections(cs, i, st) ==
    IF i > Len(cs) THEN st
    ELSE apply_corrections(cs, i + 1,
            IF st[cs[i].key] # cs[i].value THEN state_set(st, cs[i].key, cs[i].value) ELSE st)

\* _process_reply lines 464-470: the first pending Task of the current block
\* that expects the key or whose id is the key
FallbackTask(p, key) ==
    IF ~HasCurrentBlock(p) THEN << 0, 0 >>
    ELSE LET b == get_current_block(p)
             ms == { i \in 1..Len(b) :
                        /\ ~is_completed(b[i])
                        /\ (key \in get_expected_keys(b[i]) \/ b[i].id = key) }
         IN IF ms = {} THEN << 0, 0 >>
            ELSE << p.current_index + 1, CHOOSE i \in ms : \A j \in ms : i <= j >>

\* _complete_task
complete_task(t, key, value) == IF is_completed(t) THEN t ELSE complete(t, key, value)

\* _process_reply step 1: update state with task results; acc is [plan, state]
RECURSIVE apply_results(_, _, _)
apply_results(results, i, acc) ==
    IF i > Len(results) THEN acc
    ELSE LET tr == results[i]
             byId == IF tr.task_id # "" THEN get_task(acc.plan, tr.task_id) ELSE << 0, 0 >>
             pos == IF byId # << 0, 0 >> THEN byId ELSE FallbackTask(acc.plan, tr.key)
             found == pos # << 0, 0 >>
             t == acc.plan.blocks[pos[1]][pos[2]]
             valid == ~found \/ validate(t, tr.key, tr.value).ok
         IN IF ~valid THEN apply_results(results, i + 1, acc)
            ELSE apply_results(results, i + 1,
                    [plan |-> IF found /\ ~is_completed(t)
                              THEN [acc.plan EXCEPT !.blocks[pos[1]][pos[2]] =
                                        complete_task(t, tr.key, tr.value)]
                              ELSE acc.plan,
                     state |-> state_set(acc.state, tr.key, tr.value)])

\* a step 3 that completes nothing
auto_completeSkipped(p) == p

\* _process_reply step 3: auto-complete the Tasks of the current block that expect nothing
auto_complete(p) ==
    IF ~HasCurrentBlock(p) THEN p
    ELSE [p EXCEPT !.blocks[p.current_index + 1] =
            [i \in 1..Len(@) |->
                IF @[i].expects = << >> /\ ~is_completed(@[i])
                THEN complete_task(@[i], "auto", "True") ELSE @[i]]]

\* ExecutionState.status setter: COMPLETE is never left
set_status(cur, value) == IF cur = "complete" THEN cur ELSE value

\* config: the plan of the lean ChatGuide with the task "confirm" silent
AdvSilent(t) == t = "confirm"

ConfigBlock(ids) ==
    [i \in 1..Len(ids) |-> NewTask(ids[i], Expects(ids[i]), AdvSilent(ids[i]))]

InitPlan == [blocks |-> [b \in 1..Len(Blocks) |-> ConfigBlock(Blocks[b])], current_index |-> 0]

Adjustment(name, condition, actions) ==
    [name |-> name, condition |-> condition, actions |-> actions, fired |-> FALSE]

AdjustmentPool ==
    << Adjustment("warm", CondAll(<< CondHas("user_name"), CondNot(CondEq("mood", "25")) >>),
                  << ToneSet(<< "warm" >>) >>),
       Adjustment("back", CondEq("extra", "25"), << PlanJump(0) >>),
       Adjustment("always", CondBool(TRUE), << ToneAdd("brief"), StateSet("extra", "25") >>),
       Adjustment("senior", CondAny(<< CondStr, CondGt("user_age", 20) >>),
                  << PlanInsertBlock(1, << "extra_task" >>),
                     DictAction("plan.jump_to", 1), ToneAdd("slow") >>),
       Adjustment("replace", CondNot(CondHas("mood")),
                  << PlanReplaceBlock(1, << "extra_task" >>), PlanRemoveBlock(2),
                     PlanRemoveBlock(1), PlanRemoveBlock(0) >>),
       Adjustment("late", CondEq("extra", "25"),
                  << PlanInsertBlock(1, << "extra_task" >>) >>) >>

\* config: the plan [[greet]] whose Task expects nothing, with no adjustments
\* or one that sets the tone
GreetPlan == [blocks |-> << << NewTask("greet", << >>, FALSE) >> >>, current_index |-> 0]

GreetConfigs == { << >>, << AdjustmentPool[1] >> }

\* config: the plan [[confirm]] whose only Task is silent, with an adjustment
\* that appends a block once another one has set its key
SilentPlan == [blocks |-> << ConfigBlock(<< "confirm" >>) >>, current_index |-> 0]

SilentConfigs == { << AdjustmentPool[6], AdjustmentPool[3] >> }

\* the configs: pairs of different adjustments of the pool
AdjustmentConfigs ==
    { << AdjustmentPool[ij[1]], AdjustmentPool[ij[2]] >> :
        ij \in { << 3, 2 >>, << 1, 3 >>, << 2, 4 >>, << 4, 5 >>, << 5, 1 >>, << 3, 4 >> } }

(***************************************************************************)
(* Context (python/chatguide/core/context.py).  The history is a sequence  *)
(* of Messages; a content is the kind of text: "text" for what the user    *)
(* wrote, "ack", "reply" or "internal_error" for what the orchestrator     *)
(* appends.                                                                 *)
(***************************************************************************)
\* Message
Message(role, content) == [role |-> role, content |-> content]

\* an add_message that keeps the last max_messages messages, as
\* Conversation.add_message does
add_messageTrimming(h, role, content) ==
    LET a == Append(h, Message(role, content))
        max_messages == 2
    IN IF Len(a) > max_messages THEN SubSeq(a, Len(a) - max_messages + 1, Len(a)) ELSE a

\* Context.add_message; a role other than user or assistant raises ValueError
\* and nothing is appended
add_message(h, role, content) ==
    IF role \notin { "user", "assistant" } THEN h
    ELSE Append(h, Message(role, content))

\* ChatGuide.add_user_message
add_user_message(h, message) == add_message(h, "user", message)

\* ChatGuide.add_assistant_message
add_assistant_message(h, message) == add_message(h, "assistant", message)

(***************************************************************************)
(* Session persistence (old/chatguide_advanced.py checkpoint,              *)
(* from_checkpoint).  A conversation cg is [state, plan, tone,             *)
(* adjustments, history, exec_status].                                     *)
(***************************************************************************)
\* Plan.get_all_tasks
RECURSIVE get_all_tasks_from(_, _)
get_all_tasks_from(blocks, b) ==
    IF b > Len(blocks) THEN << >> ELSE blocks[b] \o get_all_tasks_from(blocks, b + 1)

get_all_tasks(p) == get_all_tasks_from(p.blocks, 1)

\* a dict comprehension {t.id: f(t) for t in ts if keep(t)}: the last Task of
\* an id decides
LastWithId(ts, keep, id) ==
    ts[CHOOSE i \in keep : ts[i].id = id /\ \A j \in keep : ts[j].id = id => j <= i]

\* Block.task_ids
task_ids(b) == [i \in 1..Len(b) |-> b[i].id]

\* Message.to_dict and Context.to_dict (timestamps are left out)
Context_to_dict(h) == [i \in 1..Len(h) |-> [role |-> h[i].role, content |-> h[i].content]]

\* Context.from_dict
Context_from_dict(d) == [i \in 1..Len(d) |-> Message(d[i].role, d[i].content)]

\* ChatGuide.checkpoint
checkpoint(cg, include_config) ==
    LET ts == get_all_tasks(cg.plan)
        withResult == { i \in 1..Len(ts) : ts[i].result # NoResult }
        all == 1..Len(ts)
    IN [state |-> cg.state,
        plan |-> [blocks |-> [b \in 1..Len(cg.plan.blocks) |-> task_ids(cg.plan.blocks[b])],
                  current_index |-> cg.plan.current_index],
        tone |-> cg.tone,
        completed_tasks |-> { ts[i].id : i \in { j \in all : is_completed(ts[j]) } },
        task_results |-> [id \in { ts[i].id : i \in withResult } |->
                            LastWithId(ts, withResult, id).result],
        context |-> Context_to_dict(cg.history),
        execution |-> [status |-> cg.exec_status],
        fired_adjustments |-> { cg.adjustments[i].name :
                                  i \in { j \in 1..Len(cg.adjustments) : cg.adjustments[j].fired } },
        has_config |-> include_config,
        config |-> IF include_config
                   THEN [id \in { ts[i].id : i \in all } |->
                            [expects |-> LastWithId(ts, all, id).expects,
                             silent |-> LastWithId(ts, all, id).silent]]
                   ELSE << >>]

\* from_checkpoint lines 1174-1198: the Task rebuilt for an id
RestoredTask(ck, task_id) ==
    LET t == IF ck.has_config /\ task_id \in DOMAIN ck.config
             THEN NewTask(task_id, ck.config[task_id].expects, ck.config[task_id].silent)
             ELSE NewTask(task_id, << >>, FALSE)
    IN IF task_id \in DOMAIN ck.task_results
       THEN [t EXCEPT !.result = ck.task_results[task_id], !.status = "completed"]
       ELSE IF task_id \in ck.completed_tasks
       THEN [t EXCEPT !.status = "completed"]
       ELSE t

\* ChatGuide.from_checkpoint: a new ChatGuide (no config, so no adjustments)
\* filled from the checkpoint
from_checkpoint(ck) ==
    LET fresh == << >>
    IN [state |-> ck.state,
        plan |-> [blocks |-> [b \in 1..Len(ck.plan.blocks) |->
                                [i \in 1..Len(ck.plan.blocks[b]) |->
                                    RestoredTask(ck, ck.plan.blocks[b][i])]],
                  current_index |-> ck.plan.current_index],
        tone |-> ck.tone,
        adjustments |-> [i \in 1..Len(fresh) |->
                            IF fresh[i].name \in ck.fired_adjustments
                            THEN MarkFired(fresh[i]) ELSE fresh[i]],
        history |-> Context_from_dict(ck.context),
        exec_status |-> set_status("idle", ck.execution.status)]

\* from_checkpoint, the only warning it can emit: the checkpoint lists fired
\* adjustments and the new instance has none loaded
from_checkpoint_warns(ck) ==
    LET fresh == << >>
    IN ck.fired_adjustments # { } /\ fresh = << >>

(***************************************************************************)
(* The ChatGuide of python/src/chatguide/chatguide.py: the same Plan,      *)
(* State and Adjustments, an ExecutionState that keeps its own list of     *)
(* completed task ids, and a _process_reply with its own order of steps.   *)
(***************************************************************************)
\* ExecutionState.mark_complete
mark_complete(completed_ids, task_id) ==
    IF \E i \in 1..Len(completed_ids) : completed_ids[i] = task_id THEN completed_ids
    ELSE Append(completed_ids, task_id)

\* replies of the model: task results without task ids, no corrections
SrcReplies ==
    { r \in AdvReplies :
        /\ r.state_corrections = << >>
        /\ \A i \in 1..Len(r.task_results) : r.task_results[i].task_id = "" }

\* chat_async: the reply is taken as silent when it holds task results and
\* the current block has a pending silent Task
src_is_this_silent(r, p) ==
    /\ r.task_results # << >>
    /\ HasCurrentBlock(p)
    /\ \E i \in 1..Len(get_current_block(p)) :
           LET t == get_current_block(p)[i] IN ~is_completed(t) /\ t.silent

\* _process_reply step 1: every result is written to State; the first pending
\* Task of the current block that expects its key is completed and marked;
\* acc is [plan, state, completed]
RECURSIVE src_apply_results(_, _, _)
src_apply_results(results, i, acc) ==
    IF i > Len(results) THEN acc
    ELSE LET tr == results[i]
             pos == FallbackTask(acc.plan, tr.key)
             found == pos # << 0, 0 >>
             t == acc.plan.blocks[pos[1]][pos[2]]
         IN src_apply_results(results, i + 1,
                [plan |-> IF found
                          THEN [acc.plan EXCEPT !.blocks[pos[1]][pos[2]] =
                                    complete(t, tr.key, tr.value)]
                          ELSE acc.plan,
                 state |-> state_set(acc.state, tr.key, tr.value),
                 completed |-> IF found THEN mark_complete(acc.completed, t.id)
                               ELSE acc.completed])

\* _process_reply step 4.5, the marks: the Tasks of the current block that
\* expect nothing and are not completed are marked, in order
RECURSIVE mark_auto_completed(_, _, _)
mark_auto_completed(b, i, completed_ids) ==
    IF i > Len(b) THEN completed_ids
    ELSE mark_auto_completed(b, i + 1,
            IF b[i].expects = << >> /\ ~is_completed(b[i])
            THEN mark_complete(completed_ids, b[i].id) ELSE completed_ids)

\* from_checkpoint: the Task rebuilt for an id; completion comes from
\* completed_tasks only
SrcRestoredTask(ck, task_id) ==
    LET t == IF ck.has_config /\ task_id \in DOMAIN ck.config
             THEN NewTask(task_id, ck.config[task_id].expects, ck.config[task_id].silent)
             ELSE NewTask(task_id, << >>, FALSE)
    IN IF task_id \in ck.completed_tasks THEN [t EXCEPT !.status = "completed"] ELSE t

\* ChatGuide.from_checkpoint: a new ChatGuide; its ExecutionState is the one
\* __init__ made, with an empty list of completed ids
src_from_checkpoint(ck) ==
    [state |-> ck.state,
     plan |-> [blocks |-> [b \in 1..Len(ck.plan.blocks) |->
                             [i \in 1..Len(ck.plan.blocks[b]) |->
                                 SrcRestoredTask(ck, ck.plan.blocks[b][i])]],
               current_index |-> ck.plan.current_index],
     tone |-> ck.tone,
     adjustments |-> << >>,
     completed |-> << >>]

(***************************************************************************)
(* StateMachine and ChatGuideV2.update (chatguide.py): batches of task     *)
(* keys, a status per task key, results kept by ChatGuideV2.               *)
(***************************************************************************)
\* StateMachine.states, as set by set_task_flow
states == << << "get_name", "get_mood" >>, << "get_city" >> >>

\* StateMachine.persistent_tasks, as set by set_task_flow
persistent_tasks == << "detect_info_updates" >>

BatchTaskIds == UNION { { states[b][i] : i \in 1..Len(states[b]) } : b \in 1..Len(states) }

PersistentTaskIds == { persistent_tasks[i] : i \in 1..Len(persistent_tasks) }

FlowTaskIds == BatchTaskIds \cup PersistentTaskIds

\* Task.max_attempts default
default_max_attempts == 5

\* ChatGuideV2.tasks: the output spec and max_attempts of each task
V2Tasks ==
    [t \in FlowTaskIds |->
        IF t = "get_mood"
        THEN [type |-> "enum", validation |-> { "happy", "sad" }, allow_empty |-> FALSE,
              max_attempts |-> 2]
        ELSE [type |-> "string", validation |-> { }, allow_empty |-> FALSE,
              max_attempts |-> default_max_attempts]]

\* the stripped result strings a reply may carry
ResultValues == { "", "happy", "zz" }

\* TaskResult
TaskResult(task_id, result) == [task_id |-> task_id, result |-> result]

\* data["tasks"] of a model output: at most MaxReplyResults entries
RECURSIVE TaskResultLists(_)
TaskResultLists(n) ==
    IF n = 0 THEN { << >> }
    ELSE TaskResultLists(n - 1) \cup
         { Append(rs, TaskResult(t, v)) :
             rs \in { l \in TaskResultLists(n - 1) : Len(l) = n - 1 },
             t \in BatchTaskIds, v \in ResultValues }

\* what the model may put in data["tasks"]
ReplyTaskLists == TaskResultLists(MaxReplyResults)

\* a result of detect_info_updates: "update: <task_part> = <new_value>" is
\* [update |-> TRUE, task_part |-> the task keys that occur in <task_part>,
\* with "_" or with " ", new_value]; any other non-empty text has update FALSE
InfoUpdate(ids) == [update |-> TRUE, task_part |-> ids, new_value |-> "zz"]

NoUpdateText == [update |-> FALSE, task_part |-> { }, new_value |-> ""]

\* data["persistent_tasks"] of a model output
PersistentChoices ==
    { << >>, << NoUpdateText >> } \cup
    { << InfoUpdate(ids) >> :
        ids \in { { }, { "get_name" }, { "get_mood" }, { "get_name", "get_mood" } } }

\* StateMachine.set_flow
set_flow ==
    [current_state |-> 0,
     task_status |-> [t \in FlowTaskIds |-> IF t \in PersistentTaskIds THEN "active"
                                              ELSE "pending"],
     task_attempts |-> [t \in FlowTaskIds |-> 0]]

\* StateMachine.get_current_tasks
get_current_tasks(cs, status) ==
    IF cs >= Len(states) THEN { }
    ELSE { t \in BatchTaskIds :
             /\ \E i \in 1..Len(states[cs + 1]) : states[cs + 1][i] = t
             /\ status[t] # "completed" }

\* StateMachine.mark_completed
mark_completed(status, task_id) ==
    IF task_id \notin PersistentTaskIds THEN [status EXCEPT ![task_id] = "completed"]
    ELSE status

\* StateMachine.mark_failed
mark_failed(status, task_id) == [status EXCEPT ![task_id] = "failed"]

\* StateMachine.increment_attempt
increment_attempt(att, task_id) == [att EXCEPT ![task_id] = @ + 1]

\* ChatGuideV2.validate_task_result, for a task of self.tasks
validate_task_result(task_id, result) ==
    LET output_spec == V2Tasks[task_id] IN
    IF result = "" THEN output_spec.allow_empty
    ELSE IF output_spec.type = "enum" THEN result \in output_spec.validation
    ELSE TRUE

\* dict[key] = value on a dict kept in insertion order
DictSet(d, key, value) ==
    IF \E i \in 1..Len(d) : d[i].task_id = key
    THEN [i \in 1..Len(d) |-> IF d[i].task_id = key THEN TaskResult(key, value) ELSE d[i]]
    ELSE Append(d, TaskResult(key, value))

\* a validation failure that sends the task back to pending
validation_failedResetting(status, att, task_id, in_current) ==
    IF in_current /\ att[task_id] >= V2Tasks[task_id].max_attempts
    THEN mark_failed(status, task_id)
    ELSE [status EXCEPT ![task_id] = "pending"]

\* update, the else branch of the validation: failed only at max_attempts and
\* only for a task of the current batch
validation_failed(status, att, task_id, in_current) ==
    IF in_current /\ att[task_id] >= V2Tasks[task_id].max_attempts
    THEN mark_failed(status, task_id)
    ELSE status

\* update, the loop over data["tasks"]; sm is [task_status, task_attempts,
\* task_results], cs the current_state (it moves only after the loops)
RECURSIVE process_tasks(_, _, _, _)
process_tasks(sm, cs, rs, i) ==
    IF i > Len(rs) THEN sm
    ELSE
        LET task_id == rs[i].task_id
            result == rs[i].result
            in_current == task_id \in get_current_tasks(cs, sm.task_status)
            att == IF in_current THEN increment_attempt(sm.task_attempts, task_id)
                   ELSE sm.task_attempts
            next ==
                IF result = "" THEN [sm EXCEPT !.task_attempts = att]
                ELSE IF validate_task_result(task_id, result)
                THEN [task_status |-> mark_completed(sm.task_status, task_id),
                      task_attempts |-> att,
                      task_results |-> DictSet(sm.task_results, task_id, result)]
                ELSE [sm EXCEPT !.task_attempts = att,
                                !.task_status = validation_failed(sm.task_status, att,
                                                                  task_id, in_current)]
        IN process_tasks(next, cs, rs, i + 1)

\* _handle_info_update: the first key of task_results that occurs in the
\* task part gets the new value and its status set to "pending";
\* 0 when no key occurs
FirstMentioned(results, upd) ==
    LET hits == { i \in 1..Len(results) : results[i].task_id \in upd.task_part }
    IN IF hits = { } THEN 0 ELSE CHOOSE i \in hits : \A j \in hits : i <= j

handle_info_update(sm, upd) ==
    LET i == FirstMentioned(sm.task_results, upd) IN
    IF i = 0 THEN sm
    ELSE LET task_id == sm.task_results[i].task_id IN
         [sm EXCEPT !.task_results = DictSet(@, task_id, upd.new_value),
                    !.task_status = IF task_id \in DOMAIN @
                                    THEN [@ EXCEPT ![task_id] = "pending"] ELSE @]

\* the task keys the update's info update resets
corrected_by(sm, ps) ==
    IF ps = << >> \/ ~ps[1].update THEN { }
    ELSE LET i == FirstMentioned(sm.task_results, ps[1]) IN
         IF i = 0 THEN { } ELSE { sm.task_results[i].task_id }

\* update, the loop over data["persistent_tasks"] (one detect_info_updates
\* entry at most; its text is not empty and detect_info_updates is a string task)
process_persistent(sm, ps) ==
    IF ps = << >> THEN sm
    ELSE LET stored == [sm EXCEPT !.task_results =
                            DictSet(@, "detect_info_updates",
                                    IF ps[1].update THEN "update" ELSE "text")]
         IN IF ps[1].update THEN handle_info_update(stored, ps[1]) ELSE stored

\* an advance that asks for completed tasks only
StateMachine_advanceCompletedOnly(cs, status) ==
    IF cs < Len(states) /\ \A i \in 1..Len(states[cs + 1]) :
                               status[states[cs + 1][i]] = "completed"
    THEN cs + 1 ELSE cs

\* StateMachine.advance
StateMachine_advance(cs, status) ==
    LET current_tasks == IF cs < Len(states) THEN states[cs + 1] ELSE << >>
        all_done == \A i \in 1..Len(current_tasks) :
                        status[current_tasks[i]] \in { "completed", "failed" }
    IN IF all_done /\ cs < Len(states) THEN cs + 1 ELSE cs

\* StateMachine.is_finished
StateMachine_is_finished(cs) == cs >= Len(states)

(***************************************************************************)
(* Construction.                                                           *)
(***************************************************************************)
LeanInit(silentChoices) ==
    /\ data = [k \in Keys |-> ABSENT]
    /\ messages = << >>
    /\ block = 0
    /\ completed = {}
    /\ recent_keys = << >>
    /\ last_error = NoError
    /\ silent \in silentChoices
    /\ pc = "idle"
    /\ retry_count = 0
    /\ task = None
    /\ is_silent = FALSE
    /\ reply_text = ""
    /\ rejected = {}
    /\ ret = "pending"
    /\ attempts = [t \in Tasks |-> 0]
    /\ forced = {}
    /\ nullSeen = {}

TaskObjectsInit ==
    /\ tasks = [t \in Tasks |-> NewTask(t, Expects(t), FALSE)]
    /\ calls = [t \in Tasks |-> << >>]

\* ChatGuide.__init__ and load_config
OrchestratorInit(p, configs) ==
    /\ plan = p
    /\ state = [k \in Keys |-> ABSENT]
    /\ tone = << >>
    /\ adjustments \in configs
    /\ history = << >>
    /\ exec_status = "idle"
    /\ last_fired_adjustments = << >>
    /\ fired_names = << >>
    /\ exec_count = [i \in 1..Len(adjustments) |-> 0]
    /\ last_op = [op |-> "init", before |-> 0, jumped |-> FALSE]
    /\ turns = 0
    /\ plan_ops = 0
    /\ chat_pc = "idle"
    /\ model_calls = 0
    /\ degraded = FALSE
    /\ pending_ui_tools = << >>

\* the instances of SpecIso and the tool ids of their configs
Instances == { "a", "b" }

ToolIds == { "show_form", "fetch" }

\* the audit log of a ChatGuide; loaded tells whether load_config has run
\* (it replaces self.state by State(initial_state))
ProcessInit(loaded) ==
    /\ audit_log = << >>
    /\ state_audit = ~loaded
    /\ last_set = AuditEntry("", ABSENT, ABSENT, "")
    /\ sets = 0
    /\ exec_completed = << >>
    /\ restores = 0
    /\ ck_fired = { }
    /\ errors = << >>
    /\ last_turn = [reply |-> [task_results |-> << >>, state_corrections |-> << >>],
                    tools |-> << >>, gave_up |-> FALSE]
    /\ returned_ui_tools = << >>
    /\ global_registry = [t \in ToolIds |-> "none"]
    /\ cgs = [i \in Instances |->
                [state |-> [k \in Keys |-> ABSENT],
                 tone_ref |-> IF i = "a" THEN 1 ELSE 2,
                 pending |-> << >>]]
    /\ tone_lists = << << >>, << >> >>
    /\ iso_op = [op |-> "init", inst |-> "a"]
    /\ iso_ops = 0

\* the arguments of the call of Task.validate that is followed, if any
ValidateInit(expects, keys, values) ==
    /\ v_expects \in expects
    /\ v_key \in keys
    /\ v_value \in values
    /\ v_out = NotCalled

\* complete_results before _process_reply ran
NotNormalized == << [key |-> "", value |-> "not normalized"] >>

\* the current Task and the reply.task_results of the _process_reply that is
\* followed, if any
NormalizeInit(task_choices, result_lists) ==
    /\ n_task \in task_choices
    /\ n_results \in result_lists
    /\ n_out = NotNormalized

AuditInit(loaded) ==
    /\ ProcessInit(loaded)
    /\ ValidateInit({ << >> }, { "extra" }, { JsonValue("null", "None") })
    /\ NormalizeInit({ "confirm" }, { << >> })

NoSilent == [t \in Tasks |-> FALSE]

OneConfig == { << AdjustmentPool[1], AdjustmentPool[2] >> }

\* ChatGuideV2() and set_task_flow
StateMachineInit ==
    /\ current_state = set_flow.current_state
    /\ task_status = set_flow.task_status
    /\ task_attempts = set_flow.task_attempts
    /\ task_results = << >>
    /\ reset_tasks = { }
    /\ updates = 0

Init ==
    /\ LeanInit([Tasks -> BOOLEAN])
    /\ TaskObjectsInit
    /\ OrchestratorInit(InitPlan, OneConfig)
    /\ StateMachineInit
    /\ AuditInit(TRUE)

InitTask ==
    /\ LeanInit({NoSilent})
    /\ TaskObjectsInit
    /\ OrchestratorInit(InitPlan, OneConfig)
    /\ StateMachineInit
    /\ AuditInit(TRUE)

InitAdv ==
    /\ LeanInit({NoSilent})
    /\ TaskObjectsInit
    /\ \/ OrchestratorInit(InitPlan, AdjustmentConfigs)
       \/ OrchestratorInit(GreetPlan, GreetConfigs)
       \/ OrchestratorInit(SilentPlan, SilentConfigs)
    /\ StateMachineInit
    /\ AuditInit(TRUE)

\* ChatGuideV2 after set_task_flow, next to an untouched orchestrator
InitV2 == InitTask

(***************************************************************************)
(* Operations.                                                             *)
(***************************************************************************)
\* add_user_message
AddUserMessage ==
    /\ pc = "idle"
    /\ Len(messages) < MaxMessages
    /\ messages' = Append(messages, [role |-> "user", content |-> "user"])
    /\ UNCHANGED << data, block, completed, recent_keys, last_error, silent, pc,
                    retry_count, task, is_silent, reply_text, rejected, ret,
                    attempts, forced, nullSeen >>
    /\ UNCHANGED << taskVars, advVars, smVars, auditVars, srcVars, toolVars, isoVars, valVars >>

\* chat(): entry, retry_count = 0
ChatStart ==
    /\ pc = "idle"
    /\ Len(messages) < MaxMessages
    /\ pc' = "loop"
    /\ retry_count' = 0
    /\ ret' = "pending"
    /\ nullSeen' = {}
    /\ UNCHANGED << data, messages, block, completed, recent_keys, last_error, silent,
                    task, is_silent, reply_text, rejected, attempts, forced >>
    /\ UNCHANGED << taskVars, advVars, smVars, auditVars, srcVars, toolVars, isoVars, valVars >>

\* chat(): one pass of the while body up to and including _process_reply
ChatIter ==
    /\ pc = "loop"
    /\ retry_count < max_retries
    /\ \E r \in Replies :
        LET tid == CurrentTaskId(block, completed)
            out == ProcessReply(r, data, recent_keys, completed, block)
        IN /\ task' = tid
           /\ is_silent' = (tid # None /\ silent[tid])
           /\ reply_text' = r.assistant_reply
           /\ rejected' = IF tid = None THEN {} ELSE RejectedKeys(r, tid)
           /\ data' = out.data
           /\ recent_keys' = out.recent_keys
           /\ last_error' = out.last_error
           /\ completed' = out.completed
           /\ block' = out.block
           /\ attempts' = IF tid = None THEN attempts
                          ELSE [attempts EXCEPT ![tid] = @ + 1]
           /\ nullSeen' = IF tid # None /\ NullKeys(r, tid) # {}
                          THEN nullSeen \cup {tid} ELSE nullSeen
    /\ pc' = "check"
    /\ UNCHANGED << messages, silent, retry_count, ret, forced >>
    /\ UNCHANGED << taskVars, advVars, smVars, auditVars, srcVars, toolVars, isoVars, valVars >>

\* a force-completion that forgets to record the task
ForceCompleteSkipped(done, cur) == done

\* chat() line 152: self.state["completed"].add(current_task_id)
ForceComplete(done, cur) == done \cup {cur}

\* chat(): lines 138-163, the completion check after _process_reply
ChatCheck ==
    /\ pc = "check"
    /\ LET cur == CurrentTaskId(block, completed)
           incomplete == cur # None /\ ~TaskIsComplete(cur, data)
           rc == IF incomplete THEN retry_count + 1 ELSE retry_count
           again == incomplete /\ rc < max_retries
           force == incomplete /\ ~(rc < max_retries)
           done2 == IF force THEN ForceComplete(completed, cur) ELSE completed
       IN /\ retry_count' = rc
          /\ completed' = done2
          /\ forced' = IF force THEN forced \cup {cur} ELSE forced
          /\ block' = IF force /\ BlockComplete(block, done2) THEN block + 1 ELSE block
          /\ IF again
             THEN /\ pc' = "loop"
                  /\ UNCHANGED << messages, ret >>
             ELSE IF ~is_silent
             THEN /\ messages' = Append(messages,
                        [role |-> "assistant", content |-> reply_text])
                  /\ ret' = "reply"
                  /\ pc' = "idle"
             ELSE /\ pc' = "loop"
                  /\ UNCHANGED << messages, ret >>
    /\ rejected' = {}
    /\ UNCHANGED << data, recent_keys, last_error, silent, task, is_silent, reply_text,
                    attempts, nullSeen >>
    /\ UNCHANGED << taskVars, advVars, smVars, auditVars, srcVars, toolVars, isoVars, valVars >>

\* chat(): the while condition fails and the function falls off its end
ChatFallOff ==
    /\ pc = "loop"
    /\ ~(retry_count < max_retries)
    /\ pc' = "idle"
    /\ ret' = "None"
    /\ UNCHANGED << data, messages, block, completed, recent_keys, last_error, silent,
                    retry_count, task, is_silent, reply_text, rejected, attempts, forced, nullSeen >>
    /\ UNCHANGED << taskVars, advVars, smVars, auditVars, srcVars, toolVars, isoVars, valVars >>

Next ==
    \/ AddUserMessage
    \/ ChatStart
    \/ ChatIter
    \/ ChatCheck
    \/ ChatFallOff

Spec == Init /\ [][Next]_vars

\* a step of the running chat() call: the call is at "loop" or at "check" and moves on
InCallStep == pc # "idle" /\ pc' \in {"idle", "loop", "check"} \ {pc}

\* a chat() call that has started keeps running (its loop never waits); the
\* caller need not call again
FairSpec == Spec /\ WF_pc(InCallStep)

(***************************************************************************)
(* The lean ChatGuide with reload_config (SpecReload).                     *)
(***************************************************************************)
\* the "state" section of the config file when it is read again: absent, or
\* a default for a key
ConfigStates == { [k \in Keys |-> ABSENT],
                  [k \in Keys |-> IF k = "user_name" THEN "HAPPY" ELSE ABSENT] }

\* dict.update(other), ABSENT standing for a key that other does not hold
DictUpdate(d, other) == [k \in DOMAIN d |-> IF other[k] # ABSENT THEN other[k] ELSE d[k]]

\* reload_config(): current_state = self.state.copy() is a shallow copy, so
\* the dict that _load_config updates with the config's "state" section is
\* the one put back; plan and tasks of the file are those already loaded
ReloadConfig ==
    /\ pc = "idle"
    /\ \E config_state \in ConfigStates : data' = DictUpdate(data, config_state)
    /\ UNCHANGED << messages, block, completed, recent_keys, last_error, silent, pc,
                    retry_count, task, is_silent, reply_text, rejected, ret,
                    attempts, forced, nullSeen >>
    /\ UNCHANGED << taskVars, advVars, smVars, auditVars, srcVars, toolVars, isoVars, valVars >>

NextReload == Next \/ ReloadConfig

SpecReload == Init /\ [][NextReload]_vars

(***************************************************************************)
(* Task objects under direct calls (SpecTask).                             *)
(***************************************************************************)
CallArgs == { [key |-> "user_name", value |-> "HAPPY"],
              [key |-> "user_name", value |-> "25"],
              [key |-> "mood", value |-> "HAPPY"] }

\* task.complete(key, value), called by any holder of the Task
CallComplete(t, a) ==
    /\ Len(calls[t]) < MaxCalls
    /\ tasks' = [tasks EXCEPT ![t] = complete(@, a.key, a.value)]
    /\ calls' = [calls EXCEPT ![t] = Append(@, a)]
    /\ UNCHANGED << leanVars, advVars, smVars, auditVars, srcVars, toolVars, isoVars, valVars >>

NextTask == \E t \in Tasks, a \in CallArgs : CallComplete(t, a)

SpecTask == InitTask /\ [][NextTask]_vars

(***************************************************************************)
(* The orchestrator's operations (SpecAdv, SpecPlan).                      *)
(***************************************************************************)
PlanIndices == (0 - 1)..MaxBlocks

HostBlock == BlockOf(<< "extra_task" >>)

Op(name, jumped) == [op |-> name, before |-> plan.current_index, jumped |-> jumped]

\* _single_turn lines 326-338: a result that names a Task by task_id and fails
\* its validation makes the attempt fail
HasValidationErrors(r, p) ==
    \E i \in 1..Len(r.task_results) :
        LET tr == r.task_results[i]
            pos == IF tr.task_id # "" THEN get_task(p, tr.task_id) ELSE << 0, 0 >>
        IN pos # << 0, 0 >> /\ ~validate(p.blocks[pos[1]][pos[2]], tr.key, tr.value).ok

\* the replies that leave the retry loop by its break
ValidReplies(p) == { r \in AdvReplies : ~HasValidationErrors(r, p) }

\* _single_turn lines 355-361: the reply made up when every attempt failed
DegradedReply == [task_results |-> << >>, state_corrections |-> << >>]

\* the outcomes of the retry loop: the number of failed attempts before the
\* one that is taken
Attempts == 0..(single_turn_max_retries + 1)

\* the tool registry of the config: a UI tool, a function tool whose handler
\* returns a dict (fetch) and one whose handler returns nothing (lookup)
UiTools == { "show_form" }

\* what the handler of a function tool returns, as the items of the dict
ToolOutputDropped(tool) == << >>

ToolOutput(tool) ==
    IF tool = "fetch" THEN << [key |-> "extra", value |-> "found"] >> ELSE << >>

\* one entry of reply.tools together with what its handler does when it is
\* run: raises says that every attempt of the call raises
ToolCall(tool, raises) == [tool |-> tool, raises |-> raises]

\* the tools lists of the replies of a model whose tools never raise
ToolChoices == { << >>, << ToolCall("show_form", FALSE) >>, << ToolCall("lookup", FALSE) >> }

\* State.update: State.set for every item of the dict
RECURSIVE state_update(_, _, _)
state_update(st, items, i) ==
    IF i > Len(items) THEN st
    ELSE state_update(state_set(st, items[i].key, items[i].value), items, i + 1)

\* the entry of self._errors for a tool call that raised (no timestamp)
ToolError(tool, task_id) == [type |-> "tool_execution", tool |-> tool, task |-> task_id]

\* _process_reply step 2 over reply.tools, acc = [pending, state, errors]:
\* ToolExecutor.execute queues a UI tool and returns None, runs the handler
\* of a function tool and returns its dict, which is merged into the State;
\* when the call raises, the except branch appends to self._errors
\* one entry and goes on with the next call
RECURSIVE execute_toolsAborting(_, _, _, _)
execute_toolsAborting(tools, i, acc, task_id) ==
    IF i > Len(tools) THEN acc
    ELSE IF tools[i].raises
    THEN [acc EXCEPT !.errors = Append(@, ToolError(tools[i].tool, task_id))]
    ELSE execute_toolsAborting(tools, i + 1,
            IF tools[i].tool \in UiTools
            THEN [acc EXCEPT !.pending = Append(@, tools[i].tool)]
            ELSE [acc EXCEPT !.state = state_update(@, ToolOutput(tools[i].tool), 1)],
            task_id)

RECURSIVE execute_tools(_, _, _, _)
execute_tools(tools, i, acc, task_id) ==
    IF i > Len(tools) THEN acc
    ELSE execute_tools(tools, i + 1,
            IF tools[i].raises
            THEN [acc EXCEPT !.errors = Append(@, ToolError(tools[i].tool, task_id))]
            ELSE IF tools[i].tool \in UiTools
            THEN [acc EXCEPT !.pending = Append(@, tools[i].tool)]
            ELSE [acc EXCEPT !.state = state_update(@, ToolOutput(tools[i].tool), 1)],
            task_id)

\* ToolExecutor.has_pending_ui_tools
has_pending_ui_tools(pending) == Len(pending) > 0

\* _process_reply step 8: the status the turn assigns
StatusTarget(p, pending) ==
    IF is_finished(p) THEN "complete"
    ELSE IF has_pending_ui_tools(pending) THEN "waiting_tool"
    ELSE "awaiting_input"

\* _process_reply steps 5 to 8, given the UI queue, the errors (ran) and what
\* adjustments.evaluate left (ev): history, advance of the plan, the status
\* that step 8 assigns
after_adjustments(r, gave_up, ran, ev) ==
    LET sil == is_this_silent(r, plan)
        corrected == r.state_corrections # << >>
        hist1 == IF corrected /\ ~sil THEN add_message(history, "assistant", "ack")
                 ELSE history
        hist2 == IF sil THEN hist1
                 ELSE add_assistant_message(hist1, IF gave_up THEN "internal_error"
                                                   ELSE "reply")
        moves == /\ ~(sil /\ corrected)
                 /\ HasCurrentBlock(ev.plan)
                 /\ is_complete(get_current_block(ev.plan))
        p5 == IF moves THEN advance(ev.plan) ELSE ev.plan
    IN [plan |-> p5, state |-> ev.state, tone |-> ev.tone, adjustments |-> ev.adjustments,
        history |-> hist2, pending |-> ran.pending, errors |-> ran.errors,
        fired_names |-> ev.fired_names, exec_count |-> ev.exec_count, jumped |-> ev.jumped,
        target |-> StatusTarget(p5, ran.pending), sil |-> sil]

\* a _process_reply that evaluates the adjustments before it auto-completes,
\* on the block that is current then (the order of
\* python/src/chatguide/chatguide.py)
after_toolsAdjustingFirst(r, gave_up, p1, ran) ==
    after_adjustments(r, gave_up, ran,
                      [evaluate(adjustments, ran.state, p1, tone, exec_count)
                           EXCEPT !.plan = auto_complete(@)])

\* _process_reply steps 3 and 4, given the plan after step 1 (p1) and what
\* the tools left (ran): auto-completion, then adjustments.evaluate
after_tools(r, gave_up, p1, ran) ==
    after_adjustments(r, gave_up, ran,
                      evaluate(adjustments, ran.state, auto_complete(p1), tone, exec_count))

\* _process_reply step 2, given what step 1 left (res): the tools
after_results(r, tools, gave_up, res) ==
    after_tools(r, gave_up, res.plan,
                execute_tools(tools, 1,
                    [pending |-> pending_ui_tools, state |-> res.state, errors |-> errors],
                    get_current_task(plan)))

\* _process_reply on reply r with the tool calls tools: what it leaves in the
\* plan, the State, the tone, the adjustments, the history, the UI queue and
\* self._errors, and the status it assigns in step 8.  Step 1: corrections,
\* then task results
process_reply(r, tools, gave_up) ==
    after_results(r, tools, gave_up,
                  apply_results(r.task_results, 1,
                      [plan |-> plan,
                       state |-> apply_corrections(r.state_corrections, 1, state)]))

\* the entry of last_turn for a sub-turn
TurnInputs(r, tools, gave_up) == [reply |-> r, tools |-> tools, gave_up |-> gave_up]

\* one sub-turn of chat_async: _single_turn (retry loop, lines 379-393) and
\* _process_reply.  failures are the numbers of failed attempts the model may
\* produce, toolChoices the tools lists its replies may hold; observed says
\* whether last_turn keeps the inputs of the sub-turn.  On a complete
\* conversation the first sub-turn of a call runs only on a build without
\* __debug__ (else ChatRaises); inside a call, the status setter of step 8
\* raises on a build with __debug__ when the plan is no longer finished.
SubTurnOf(failures, toolChoices, observed) ==
    /\ turns < MaxTurns
    /\ \E n \in failures, tl \in toolChoices :
        \E r \in (IF n > single_turn_max_retries THEN { DegradedReply } ELSE ValidReplies(plan)) :
        \E gave_up \in { n > single_turn_max_retries } :
        \E tools \in { IF gave_up THEN << >> ELSE tl } :
        \E o \in { process_reply(r, tools, gave_up) } :
        LET may_raise == /\ chat_pc = "running"
                         /\ exec_status = "complete"
                         /\ o.target # "complete"
        IN \E raised \in (IF may_raise THEN BOOLEAN ELSE { FALSE }) :
           /\ plan' = o.plan
           /\ state' = o.state
           /\ tone' = o.tone
           /\ adjustments' = o.adjustments
           /\ history' = o.history
           /\ exec_status' = set_status(exec_status, o.target)
           /\ last_fired_adjustments' = IF o.fired_names # << >> THEN o.fired_names
                                        ELSE last_fired_adjustments
           /\ fired_names' = o.fired_names
           /\ exec_count' = o.exec_count
           /\ last_op' = Op(IF raised THEN "turn_raised" ELSE "turn", o.jumped)
           /\ chat_pc' = IF o.sil /\ ~raised THEN "running" ELSE "idle"
           /\ model_calls' = IF gave_up THEN n ELSE n + 1
           /\ degraded' = gave_up
           /\ pending_ui_tools' = o.pending
           /\ errors' = o.errors
           /\ last_turn' = IF observed THEN TurnInputs(r, tools, gave_up) ELSE last_turn
    /\ turns' = turns + 1
    /\ UNCHANGED << plan_ops, returned_ui_tools, leanVars, taskVars, smVars, auditVars, srcVars,
                    isoVars, valVars >>

SubTurn(failures, toolChoices) == SubTurnOf(failures, toolChoices, FALSE)

\* a sub-turn with a model whose first answer is well formed and calls no tool
SingleTurn == SubTurn({ 0 }, { << >> })

\* a sub-turn with any model
RetryTurn == SubTurn(Attempts, ToolChoices)

\* chat_async line 207 on a complete conversation, build with __debug__:
\* the status setter raises and nothing is processed
ChatRaises ==
    /\ turns < MaxTurns
    /\ chat_pc = "idle"
    /\ exec_status = "complete"
    /\ turns' = turns + 1
    /\ last_op' = Op("chat_raised", FALSE)
    /\ UNCHANGED << plan, state, tone, adjustments, history, exec_status,
                    last_fired_adjustments, fired_names, exec_count, plan_ops,
                    chat_pc, model_calls, degraded, pending_ui_tools,
                    leanVars, taskVars, smVars, auditVars, srcVars, toolVars, isoVars, valVars >>

\* the host takes the pending UI tools to render them
\* (ToolExecutor.get_pending_ui_tools: a copy is returned, the queue cleared);
\* observed says whether returned_ui_tools keeps what the call returned
GetPendingUiToolsOf(observed) ==
    /\ chat_pc = "idle"
    /\ has_pending_ui_tools(pending_ui_tools)
    /\ returned_ui_tools' = IF observed THEN pending_ui_tools ELSE returned_ui_tools
    /\ pending_ui_tools' = << >>
    /\ last_op' = Op("get_pending_ui_tools", FALSE)
    /\ UNCHANGED << plan, state, tone, adjustments, history, exec_status,
                    last_fired_adjustments, fired_names, exec_count, turns, plan_ops,
                    chat_pc, model_calls, degraded, errors, last_turn,
                    leanVars, taskVars, smVars, auditVars, srcVars, isoVars, valVars >>

GetPendingUiTools == GetPendingUiToolsOf(FALSE)

\* a Plan method called by the host between turns
HostOp(name, jumped, p) ==
    /\ chat_pc = "idle"
    /\ plan_ops < MaxPlanOps
    /\ plan' = p
    /\ plan_ops' = plan_ops + 1
    /\ last_op' = Op(name, jumped)
    /\ UNCHANGED << state, tone, adjustments, history, exec_status,
                    last_fired_adjustments, fired_names, exec_count, turns,
                    chat_pc, model_calls, degraded, pending_ui_tools,
                    leanVars, taskVars, smVars, auditVars, srcVars, toolVars, isoVars, valVars >>

HostAdvance == HostOp("advance", FALSE, advance(plan))

HostJumpTo == \E i \in PlanIndices : HostOp("jump_to", TRUE, jump_to(plan, i))

HostInsertBlock ==
    \E i \in PlanIndices :
        /\ Len(plan.blocks) < MaxBlocks
        /\ HostOp("insert_block", FALSE, insert_block(plan, i, HostBlock))

HostRemoveBlock == \E i \in PlanIndices : HostOp("remove_block", FALSE, remove_block(plan, i))

HostReplaceBlock ==
    \E i \in PlanIndices : HostOp("replace_block", FALSE, replace_block(plan, i, HostBlock))

NextAdv ==
    \/ SingleTurn
    \/ ChatRaises

\* the conversation: chat calls only
SpecAdv == InitAdv /\ [][NextAdv]_vars

NextPlan ==
    \/ SingleTurn
    \/ ChatRaises
    \/ HostAdvance
    \/ HostJumpTo
    \/ HostInsertBlock
    \/ HostRemoveBlock
    \/ HostReplaceBlock

\* the conversation with the host calling the Plan methods between chat calls
SpecPlan == InitAdv /\ [][NextPlan]_vars

\* the host passes on what the user wrote (add_user_message), between chat calls
UserSays ==
    /\ chat_pc = "idle"
    /\ Cardinality({ i \in 1..Len(history) : history[i].role = "user" }) < MaxUserMessages
    /\ history' = add_user_message(history, "text")
    /\ last_op' = Op("add_user_message", FALSE)
    /\ UNCHANGED << plan, state, tone, adjustments, exec_status,
                    last_fired_adjustments, fired_names, exec_count, turns, plan_ops,
                    chat_pc, model_calls, degraded, pending_ui_tools,
                    leanVars, taskVars, smVars, auditVars, srcVars, toolVars, isoVars, valVars >>

NextTalk ==
    \/ SingleTurn
    \/ ChatRaises
    \/ UserSays

SpecTalk == InitAdv /\ [][NextTalk]_vars

NextChat ==
    \/ RetryTurn
    \/ ChatRaises
    \/ GetPendingUiTools

\* the conversation with a model that may answer malformed output and tools
SpecChat == InitAdv /\ [][NextChat]_vars

(***************************************************************************)
(* ChatGuideV2 under update() calls (SpecV2).                              *)
(***************************************************************************)
\* ChatGuideV2.update on one model output (no routes configured)
Update ==
    /\ updates < MaxUpdates
    /\ \E rs \in ReplyTaskLists, ps \in PersistentChoices :
           LET sm0 == [task_status |-> task_status, task_attempts |-> task_attempts,
                       task_results |-> task_results]
               sm1 == process_tasks(sm0, current_state, rs, 1)
               sm2 == process_persistent(sm1, ps)
           IN /\ task_status' = sm2.task_status
              /\ task_attempts' = sm2.task_attempts
              /\ task_results' = sm2.task_results
              /\ reset_tasks' = corrected_by(sm1, ps)
              /\ current_state' = StateMachine_advance(current_state, sm2.task_status)
    /\ updates' = updates + 1
    /\ UNCHANGED << leanVars, taskVars, advVars, auditVars, srcVars, toolVars, isoVars, valVars >>

NextV2 == Update

SpecV2 == InitV2 /\ [][NextV2]_vars

(***************************************************************************)
(* A ChatGuide built without a config, under load_config and State.set     *)
(* calls (SpecState).                                                      *)
(***************************************************************************)
\* Plan()
EmptyPlan == [blocks |-> << >>, current_index |-> 0]

\* ChatGuide(): the State holds the audit log, nothing is loaded
InitState ==
    /\ LeanInit({NoSilent})
    /\ TaskObjectsInit
    /\ OrchestratorInit(EmptyPlan, { << >> })
    /\ StateMachineInit
    /\ AuditInit(FALSE)

\* the values and source tasks of the State.set calls
SetValues == { "25", "HAPPY" }

SourceTasks == { "get_name", "get_info" }

\* the "state" section of a config
InitialStates == { [k \in Keys |-> ABSENT],
                   [k \in Keys |-> IF k = "extra" THEN "25" ELSE ABSENT] }

\* State.set(key, value, source_task), as _process_reply, an Adjustment's
\* state.set action or the host calls it
CallStateSet ==
    /\ sets < MaxSets
    /\ \E key \in Keys, value \in SetValues, source_task \in SourceTasks :
           /\ state' = state_set(state, key, value)
           /\ audit_log' = set_audit(audit_log, state_audit, state, key, value, source_task)
           /\ last_set' = AuditEntry(key, state[key], value, source_task)
    /\ sets' = sets + 1
    /\ last_op' = Op("state_set", FALSE)
    /\ UNCHANGED << plan, tone, adjustments, history, exec_status,
                    last_fired_adjustments, fired_names, exec_count, turns, plan_ops,
                    chat_pc, model_calls, degraded, pending_ui_tools, state_audit,
                    leanVars, taskVars, smVars, srcVars, toolVars, isoVars, valVars >>

\* ChatGuide.load_config: the State is replaced by State(initial_state),
\* which holds no audit log; plan and adjustments come from the config
LoadConfig ==
    /\ sets < MaxSets
    /\ \E initial_state \in InitialStates, config \in OneConfig :
           /\ state' = initial_state
           /\ adjustments' = config
           /\ exec_count' = [i \in 1..Len(config) |-> 0]
    /\ state_audit' = FALSE
    /\ plan' = InitPlan
    /\ sets' = sets + 1
    /\ last_op' = Op("load_config", FALSE)
    /\ UNCHANGED << tone, history, exec_status, last_fired_adjustments, fired_names,
                    turns, plan_ops, chat_pc, model_calls, degraded, pending_ui_tools,
                    audit_log, last_set, leanVars, taskVars, smVars, srcVars, toolVars, isoVars, valVars >>

NextState == CallStateSet \/ LoadConfig

SpecState == InitState /\ [][NextState]_vars

(***************************************************************************)
(* The orchestrator with tools whose handlers may raise (SpecTools).       *)
(***************************************************************************)
\* the tools lists of the replies, with what each handler does: no call,
\* a call that goes through, a call that raises, alone, before and after
\* another call
AnyToolChoices ==
    { << >>,
      << ToolCall("fetch", FALSE) >>,
      << ToolCall("fetch", TRUE) >>,
      << ToolCall("fetch", TRUE), ToolCall("show_form", FALSE) >>,
      << ToolCall("lookup", TRUE), ToolCall("fetch", FALSE) >>,
      << ToolCall("show_form", FALSE), ToolCall("fetch", TRUE) >> }

\* load_config of the plan of InitPlan with an adjustment that reads a key
\* the tool fetch writes, or of the plan whose only Task is silent
ToolConfigs == { << AdjustmentPool[2], AdjustmentPool[3] >> }

InitTools ==
    /\ LeanInit({NoSilent})
    /\ TaskObjectsInit
    /\ \/ OrchestratorInit(InitPlan, ToolConfigs)
       \/ OrchestratorInit(SilentPlan, SilentConfigs)
    /\ StateMachineInit
    /\ AuditInit(TRUE)

\* a sub-turn with a model whose first answer is well formed and calls tools
ToolTurn == SubTurnOf({ 0 }, AnyToolChoices, TRUE)

\* the host takes the pending UI tools
TakeUiTools == GetPendingUiToolsOf(TRUE)

NextTools ==
    \/ ToolTurn
    \/ ChatRaises
    \/ TakeUiTools

SpecTools == InitTools /\ [][NextTools]_vars

(***************************************************************************)
(* The ChatGuide of python/src/chatguide/chatguide.py under chat calls and *)
(* restores from its checkpoints (SpecSrc).                                *)
(***************************************************************************)
\* the conversation as it stands
Conversation ==
    [state |-> state, plan |-> plan, tone |-> tone, adjustments |-> adjustments,
     history |-> history, exec_status |-> exec_status]

\* one model reply of chat_async and its _process_reply; a silent reply is
\* followed, in the same call, by a second one processed as not silent
SrcTurn ==
    /\ turns < MaxTurns
    /\ \E r \in SrcReplies :
        LET sil == chat_pc = "idle" /\ src_is_this_silent(r, plan)
            res == src_apply_results(r.task_results, 1,
                       [plan |-> plan, state |-> state, completed |-> exec_completed])
            ev == evaluate(adjustments, res.state, res.plan, tone, exec_count)
            hist == IF sil THEN history ELSE add_assistant_message(history, "reply")
            marked == IF HasCurrentBlock(ev.plan)
                      THEN mark_auto_completed(get_current_block(ev.plan), 1, res.completed)
                      ELSE res.completed
            p4 == auto_complete(ev.plan)
            p5 == IF HasCurrentBlock(p4) /\ is_complete(get_current_block(p4))
                  THEN advance(p4) ELSE p4
        IN /\ plan' = p5
           /\ state' = ev.state
           /\ tone' = ev.tone
           /\ adjustments' = ev.adjustments
           /\ history' = hist
           /\ exec_completed' = marked
           /\ exec_status' = IF is_finished(p5) THEN "complete" ELSE "awaiting_input"
           /\ last_fired_adjustments' = IF ev.fired_names # << >> THEN ev.fired_names
                                        ELSE last_fired_adjustments
           /\ fired_names' = ev.fired_names
           /\ exec_count' = ev.exec_count
           /\ last_op' = Op("turn", ev.jumped)
           /\ chat_pc' = IF sil THEN "running" ELSE "idle"
    /\ turns' = turns + 1
    /\ UNCHANGED << plan_ops, model_calls, degraded, pending_ui_tools, restores, ck_fired,
                    leanVars, taskVars, smVars, auditVars, toolVars, isoVars, valVars >>

\* the host replaces the conversation by ChatGuide.from_checkpoint of a
\* checkpoint of it (the dict checkpoint() lists: state, plan ids and index,
\* tone, completed_tasks, fired_adjustments, optionally the config)
SrcRestore ==
    /\ chat_pc = "idle"
    /\ restores < MaxRestores
    /\ \E include_config \in BOOLEAN :
        LET cg == src_from_checkpoint(checkpoint(Conversation, include_config))
        IN /\ plan' = cg.plan
           /\ state' = cg.state
           /\ tone' = cg.tone
           /\ adjustments' = cg.adjustments
           /\ exec_completed' = cg.completed
    /\ history' = << >>
    /\ exec_status' = "idle"
    /\ last_fired_adjustments' = << >>
    /\ fired_names' = << >>
    /\ exec_count' = << >>
    /\ pending_ui_tools' = << >>
    /\ restores' = restores + 1
    /\ last_op' = Op("from_checkpoint", FALSE)
    /\ UNCHANGED << turns, plan_ops, chat_pc, model_calls, degraded, ck_fired,
                    leanVars, taskVars, smVars, auditVars, toolVars, isoVars, valVars >>

NextSrc == SrcTurn \/ SrcRestore

SpecSrc == InitAdv /\ [][NextSrc]_vars

(***************************************************************************)
(* The orchestrator with tools, read by the host (SpecRead).               *)
(***************************************************************************)
\* get_state(): the snapshot is assembled from the members; its
\* pending_ui_tools entry is taken with self.get_pending_ui_tools(), which
\* returns a copy of the queue and clears it
GetState ==
    /\ chat_pc = "idle"
    /\ pending_ui_tools' = << >>
    /\ last_op' = Op("get_state", FALSE)
    /\ UNCHANGED << plan, state, tone, adjustments, history, exec_status,
                    last_fired_adjustments, fired_names, exec_count, turns, plan_ops,
                    chat_pc, model_calls, degraded,
                    leanVars, taskVars, smVars, auditVars, srcVars, toolVars, isoVars, valVars >>

NextRead ==
    \/ ToolTurn
    \/ ChatRaises
    \/ TakeUiTools
    \/ GetState

SpecRead == InitTools /\ [][NextRead]_vars

(***************************************************************************)
(* chat and handle_tool_response on any conversation (SpecDone).           *)
(***************************************************************************)
\* the result argument of handle_tool_response: a dict, or any other value
ToolResponses == { << [key |-> "extra", value |-> "found"] >>, << >> }

\* handle_tool_response(tool_id, result).  Line 638 assigns status
\* "processing": on a complete conversation the setter raises when the build
\* has __debug__ (nothing else runs) and ignores the assignment otherwise
HandleToolResponse ==
    /\ chat_pc = "idle"
    /\ sets < MaxSets
    /\ \E result \in ToolResponses :
       \E raised \in (IF exec_status = "complete" THEN BOOLEAN ELSE { FALSE }) :
           /\ exec_status' = set_status(exec_status, "processing")
           /\ state' = IF raised THEN state ELSE state_update(state, result, 1)
           /\ history' = IF raised THEN history
                         ELSE add_user_message(history, "tool_result")
           /\ last_op' = Op(IF raised THEN "handle_tool_response_raised"
                            ELSE "handle_tool_response", FALSE)
    /\ sets' = sets + 1
    /\ UNCHANGED << plan, tone, adjustments, last_fired_adjustments, fired_names,
                    exec_count, turns, plan_ops, chat_pc, model_calls, degraded,
                    pending_ui_tools, audit_log, state_audit, last_set,
                    leanVars, taskVars, smVars, srcVars, toolVars, isoVars, valVars >>

NextDone ==
    \/ SingleTurn
    \/ ChatRaises
    \/ HandleToolResponse

SpecDone == InitAdv /\ [][NextDone]_vars

(***************************************************************************)
(* The orchestrator of old/chatguide_advanced.py restored from a           *)
(* checkpoint of itself and given the same config again (SpecRestore).     *)
(***************************************************************************)
\* the "adjustments" section of the config
RestoreConfig == << AdjustmentPool[1], AdjustmentPool[3] >>

InitRestore ==
    /\ LeanInit({NoSilent})
    /\ TaskObjectsInit
    /\ OrchestratorInit(InitPlan, { RestoreConfig })
    /\ StateMachineInit
    /\ AuditInit(TRUE)

\* the host replaces the conversation by ChatGuide.from_checkpoint of a
\* checkpoint of it: a new instance, built without a config
Restore ==
    /\ chat_pc = "idle"
    /\ restores < MaxRestores
    /\ \E include_config \in BOOLEAN :
        \E ck \in { checkpoint(Conversation, include_config) } :
        \E cg \in { from_checkpoint(ck) } :
           /\ plan' = cg.plan
           /\ state' = cg.state
           /\ tone' = cg.tone
           /\ adjustments' = cg.adjustments
           /\ history' = cg.history
           /\ exec_status' = cg.exec_status
           /\ ck_fired' = ck.fired_adjustments
    /\ last_fired_adjustments' = << >>
    /\ fired_names' = << >>
    /\ exec_count' = << >>
    /\ pending_ui_tools' = << >>
    /\ restores' = restores + 1
    /\ last_op' = Op("from_checkpoint", FALSE)
    /\ UNCHANGED << turns, plan_ops, chat_pc, model_calls, degraded, exec_completed,
                    leanVars, taskVars, smVars, auditVars, toolVars, isoVars, valVars >>

\* load_config(config) on the restored instance: State and Plan are built
\* anew from the config, its adjustments are appended as parsed (fired False)
RestoreLoadConfig ==
    /\ chat_pc = "idle"
    /\ restores > 0
    /\ adjustments = << >>
    /\ state' = [k \in Keys |-> ABSENT]
    /\ plan' = InitPlan
    /\ adjustments' = adjustments \o RestoreConfig
    /\ exec_count' = exec_count \o [i \in 1..Len(RestoreConfig) |-> 0]
    /\ tone' = << >>
    /\ last_op' = Op("load_config", FALSE)
    /\ UNCHANGED << history, exec_status, last_fired_adjustments, fired_names,
                    turns, plan_ops, chat_pc, model_calls, degraded, pending_ui_tools,
                    leanVars, taskVars, smVars, auditVars, srcVars, toolVars, isoVars, valVars >>

NextRestore == SingleTurn \/ Restore \/ RestoreLoadConfig

SpecRestore == InitRestore /\ [][NextRestore]_vars

(***************************************************************************)
(* Two ChatGuide instances of old/chatguide_advanced.py in one process     *)
(* (SpecIso): the objects an instance holds by reference.                  *)
(***************************************************************************)
\* a "tools" section of a config: tool id -> type
IsoToolDefs ==
    { [t \in { "show_form" } |-> "ui"],
      [t \in { "fetch" } |-> "function"],
      [t \in { "show_form" } |-> "function"] }

\* ToolRegistry.register for every tool of the section
register_all(registry, defs) ==
    [t \in ToolIds |-> IF t \in DOMAIN defs THEN defs[t] ELSE registry[t]]

\* the tone list an instance holds
IsoTone(i) == tone_lists[cgs[i].tone_ref]

\* every operation of the host on an instance counts
IsoOp(name, i) ==
    /\ iso_ops < MaxIsoOps
    /\ iso_ops' = iso_ops + 1
    /\ iso_op' = [op |-> name, inst |-> i]
    /\ UNCHANGED << leanVars, taskVars, advVars, smVars, auditVars, srcVars, toolVars, valVars >>

\* load_config of a config file: the State and the tone list are new
\* objects, the tools go to self.tool_registry, which is get_tool_registry()
IsoLoadConfig ==
    \E i \in Instances, defs \in IsoToolDefs, initial_state \in InitialStates :
        /\ IsoOp("load_config", i)
        /\ cgs' = [cgs EXCEPT ![i].state = initial_state,
                              ![i].tone_ref = Len(tone_lists) + 1]
        /\ tone_lists' = Append(tone_lists, << >>)
        /\ global_registry' = register_all(global_registry, defs)

\* a turn that stores a task result
IsoTurn ==
    \E i \in Instances, value \in SetValues :
        /\ IsoOp("turn", i)
        /\ cgs' = [cgs EXCEPT ![i].state = state_set(@, "user_name", value)]
        /\ UNCHANGED << tone_lists, global_registry >>

\* the actions of an Adjustment that fires in a turn: tone.set and tone.add
\* change the list self.tone in place
IsoAdjustment ==
    \E i \in Instances, a \in { ToneAdd("brief"), ToneSet(<< "warm" >>), StateSet("extra", "25") } :
        LET acc == ExecuteTyped(a, [plan |-> EmptyPlan, state |-> cgs[i].state,
                                    tone |-> IsoTone(i), jumped |-> FALSE])
        IN /\ IsoOp("adjustment", i)
           /\ cgs' = [cgs EXCEPT ![i].state = acc.state]
           /\ tone_lists' = [tone_lists EXCEPT ![cgs[i].tone_ref] = acc.tone]
           /\ UNCHANGED global_registry

\* a turn whose reply calls a tool: ToolExecutor.execute looks the id up in
\* the registry and queues a UI tool
IsoExecute ==
    \E i \in Instances, tool \in ToolIds :
        /\ IsoOp("execute", i)
        /\ cgs' = [cgs EXCEPT ![i].pending =
                      IF global_registry[tool] = "ui" THEN Append(@, tool) ELSE @]
        /\ UNCHANGED << tone_lists, global_registry >>

\* cgs[i] = ChatGuide.from_checkpoint(cgs[j].checkpoint()): checkpoint() puts
\* a copy of the State and the list self.tone itself in the dict, and
\* from_checkpoint keeps both
IsoRestore ==
    \E i \in Instances, j \in Instances :
        /\ i # j
        /\ IsoOp("from_checkpoint", i)
        /\ cgs' = [cgs EXCEPT ![i] = [state |-> cgs[j].state,
                                      tone_ref |-> cgs[j].tone_ref,
                                      pending |-> << >>]]
        /\ UNCHANGED << tone_lists, global_registry >>

NextIso ==
    \/ IsoLoadConfig
    \/ IsoTurn
    \/ IsoAdjustment
    \/ IsoExecute
    \/ IsoRestore

SpecIso == InitState /\ [][NextIso]_vars

(***************************************************************************)
(* Validation called on the values a reply can hold (SpecValidate).        *)
(***************************************************************************)
\* the expects lists of the Tasks that are validated against
ExpectLists ==
    { Expects(t) : t \in Tasks } \cup
    { << Exp("user_age", "number", NoBound, NoBound, {}) >>,
      << Exp("user_age", "number", 1, NoBound, {}) >>,
      << Exp("mood", "enum", NoBound, NoBound, {}) >> }

\* the values of a reply: strings, numbers, booleans, null
JsonValues ==
    { JsonValue("str", v) : v \in Values } \cup
    { JsonValue("num", v) : v \in { "0", "25", "150" } } \cup
    { JsonValue("bool", v) : v \in { "True", "False" } } \cup
    { JsonValue("null", "None") }

InitValidate ==
    /\ LeanInit({NoSilent})
    /\ TaskObjectsInit
    /\ OrchestratorInit(InitPlan, OneConfig)
    /\ StateMachineInit
    /\ ProcessInit(TRUE)
    /\ ValidateInit(ExpectLists, Keys, JsonValues)
    /\ NormalizeInit({ "confirm" }, { << >> })

\* task.validate(key, value)
CallValidate ==
    /\ v_out = NotCalled
    /\ v_out' = validate_json(v_expects, v_key, v_value)
    /\ UNCHANGED << v_expects, v_key, v_value, n_task, n_results, n_out,
                    leanVars, taskVars, advVars, smVars,
                    auditVars, srcVars, toolVars, isoVars >>

NextValidate == CallValidate

SpecValidate == InitValidate /\ [][NextValidate]_vars

(***************************************************************************)
(* Steps 1 and 2 of the lean _process_reply on one reply (SpecNormalize).  *)
(***************************************************************************)
\* the entries a reply can hold: any key, a value or null; the parser keeps
\* two entries of one key when their task_id differs
ResultEntries ==
    { [key |-> k, value |-> v] : k \in Keys, v \in { "25", "HAPPY", NULL } }

MaxEntries == 2

ResultLists == UNION { [1..n -> ResultEntries] : n \in 0..MaxEntries }

InitNormalize ==
    /\ LeanInit({NoSilent})
    /\ TaskObjectsInit
    /\ OrchestratorInit(InitPlan, OneConfig)
    /\ StateMachineInit
    /\ ProcessInit(TRUE)
    /\ ValidateInit({ << >> }, { "extra" }, { JsonValue("null", "None") })
    /\ NormalizeInit(Tasks, ResultLists)

\* _process_reply lines 285-312: filtered_results, then complete_results
Normalize ==
    /\ n_out = NotNormalized
    /\ n_out' = CompleteResults(FilterResults(n_results, ExpectedKeys(n_task)),
                                ExpectedKeys(n_task))
    /\ UNCHANGED << v_expects, v_key, v_value, v_out, n_task, n_results,
                    leanVars, taskVars, advVars, smVars,
                    auditVars, srcVars, toolVars, isoVars >>

NextNormalize == Normalize

SpecNormalize == InitNormalize /\ [][NextNormalize]_vars

(***************************************************************************)
(* Properties of the lean ChatGuide (Spec, FairSpec).                      *)
(***************************************************************************)
ExpectsKeySet(t) == IF t \in Tasks THEN { Expects(t)[i].key : i \in 1..Len(Expects(t)) } ELSE {}

C6_InvalidValueLeavesTaskPending ==
    [][ (pc = "loop" /\ pc' = "check" /\ last_error' # NoError)
            => /\ data'[last_error'.key] = data[last_error'.key]
               /\ task' \notin completed' ]_vars

C8_OwnRetryBudget ==
    \A t \in forced : attempts[t] = max_retries

C10_NullKeepsTaskCurrent ==
    (pc = "idle" /\ ret # "pending")
        => \A t \in nullSeen : t \notin completed /\ CurrentTaskId(block, completed) = t

(***************************************************************************)
(* Properties of Task objects (SpecTask).                                  *)
(***************************************************************************)
\* C1: complete(k, v) on a Task that is already completed is a no-op - after
\* any number of calls the Task is completed and its result is the one stored
\* by the first call, never overwritten by a later call
C1_CompleteIdempotent ==
    \A t \in Tasks :
        Len(calls[t]) >= 1 =>
            /\ tasks[t].status = "completed"
            /\ tasks[t].result = calls[t][1]

\* a Task was completed and then complete() was called on it again with
\* other arguments
C1_Witness ==
    \E t \in Tasks :
        /\ Len(calls[t]) >= 2
        /\ calls[t][2] # calls[t][1]
        /\ tasks[t].result = calls[t][1]

(***************************************************************************)
(* Properties of the orchestrator (SpecAdv, SpecPlan).                     *)
(***************************************************************************)
\* C2: over a whole conversation the actions of every Adjustment are executed
\* at most once, even if its condition stays true on later turns
C2_AtMostOnce ==
    \A i \in 1..Len(adjustments) : exec_count[i] <= 1

\* an Adjustment fired in an earlier turn, its condition is still true after
\* a later turn, and that later turn did not fire it
C2_Witness ==
    \E i \in 1..Len(adjustments) :
        /\ exec_count[i] = 1
        /\ adjustments[i].fired
        /\ turns >= 2
        /\ last_op.op = "turn"
        /\ i \notin SeqRange(fired_names)
        /\ evaluate_condition(adjustments[i].condition, state) = "T"

HasStateSet(adj) == \E j \in 1..Len(adj.actions) : adj.actions[j].type = "state.set"

\* C3 (as the code has it): in one turn the Adjustments are evaluated in
\* declaration order and the evaluation goes on after a match - the
\* Adjustments fired by the turn are listed in declaration order, none was
\* fired before, each is marked fired, no other changes its mark, and (when no
\* fired action wrote the State) every Adjustment whose condition holds in
\* the State after the turn has fired
C3_AllMatchingFire ==
    [][ (turns' = turns + 1 /\ last_op'.op = "turn") =>
            /\ \A a, b \in 1..Len(fired_names') :
                    a < b => fired_names'[a] < fired_names'[b]
            /\ \A a \in 1..Len(fired_names') : ~adjustments[fired_names'[a]].fired
            /\ \A i \in 1..Len(adjustments) :
                    adjustments'[i].fired =
                        (adjustments[i].fired \/ i \in SeqRange(fired_names'))
            /\ (\A a \in 1..Len(fired_names') : ~HasStateSet(adjustments[fired_names'[a]]))
                    => \A i \in 1..Len(adjustments) :
                            evaluate_condition(adjustments[i].condition, state') = "T"
                                => adjustments'[i].fired ]_vars

\* two Adjustments fired in the same turn
C3_Witness ==
    /\ last_op.op = "turn"
    /\ Len(fired_names) >= 2

\* C3 as stated: first-match-wins, at most one Adjustment fires per turn
C3_FirstMatchWins ==
    Len(fired_names) <= 1

\* C4: across turns and plan operations, current_index decreases only in a
\* step that calls jump_to (the host's call or an Adjustment's action)
C4_IndexMonotone ==
    [][ plan'.current_index < plan.current_index => last_op'.jumped ]_vars

\* after a call of a Plan method by the host, a turn without any jump_to
\* moved the cursor forward
C4_Witness ==
    /\ plan_ops >= 1
    /\ last_op.op = "turn"
    /\ ~last_op.jumped
    /\ plan.current_index > last_op.before

(***************************************************************************)
(* Properties of session persistence (SpecAdv).                            *)
(***************************************************************************)
\* the externally observable fields of a conversation
StatusesOf(cg) ==
    [b \in 1..Len(cg.plan.blocks) |->
        [i \in 1..Len(cg.plan.blocks[b]) |->
            << cg.plan.blocks[b][i].id, cg.plan.blocks[b][i].status >>]]

FiredSet(cg) ==
    { cg.adjustments[i].name : i \in { j \in 1..Len(cg.adjustments) : cg.adjustments[j].fired } }

Observable(cg) ==
    [state |-> cg.state, statuses |-> StatusesOf(cg), current_index |-> cg.plan.current_index,
     history |-> cg.history, fired |-> FiredSet(cg)]

\* C11: restoring the checkpoint of any reachable conversation gives a
\* conversation with the same State contents, Plan blocks and current_index,
\* Task completion statuses, Context history and set of fired Adjustments
C11_CheckpointRoundTrip ==
    \A include_config \in BOOLEAN :
        Observable(from_checkpoint(checkpoint(Conversation, include_config)))
            = Observable(Conversation)

(***************************************************************************)
(* Properties of a processed turn (SpecAdv).                               *)
(***************************************************************************)
\* Block.get_pending_tasks
get_pending_tasks(b) == { i \in 1..Len(b) : ~is_completed(b[i]) }

\* _check_invariants, invariant 1: the blocks below the cursor that hold
\* pending Tasks
PendingBelowCursor(p) ==
    { b \in 1..Len(p.blocks) : b - 1 < p.current_index /\ get_pending_tasks(p.blocks[b]) # {} }

\* C12: after every turn, every Block at an index below current_index
\* contains no pending Task
C12_NoPendingBelowCursor ==
    last_op.op = "turn" => PendingBelowCursor(plan) = {}

\* a step is a processed sub-turn
IsTurnStep == turns' = turns + 1 /\ last_op'.op = "turn"

\* the ids of the Tasks of the current block that expect nothing
AutoTaskIds(p) ==
    IF ~HasCurrentBlock(p) THEN {}
    ELSE { get_current_block(p)[i].id :
             i \in { j \in 1..Len(get_current_block(p)) : get_current_block(p)[j].expects = << >> } }

\* the plan holds no Task of the id any more, or one that is completed
CompletedIfInPlan(p, id) ==
    \/ TaskPositions(p, id) = {}
    \/ \E pos \in TaskPositions(p, id) : is_completed(p.blocks[pos[1]][pos[2]])

C14_StatusAtTurnEnd ==
    last_op.op = "turn" =>
        /\ exec_status = "complete" <=> is_finished(plan)
        /\ ~is_finished(plan) =>
              exec_status = IF Len(pending_ui_tools) > 0 THEN "waiting_tool"
                            ELSE "awaiting_input"

\* the current Task exists and is marked silent
CurrentTaskSilent(p) ==
    LET id == get_current_task(p)
        pos == get_task(p, id)
    IN id # None /\ pos # << 0, 0 >> /\ p.blocks[pos[1]][pos[2]].silent

\* C15: a chat call goes on with a further sub-turn only while the current
\* Task is silent; it returns once a non-silent Task is reached or the Plan
\* is finished
C15_ContinuesOnlyOnSilentTask ==
    chat_pc = "running" => CurrentTaskSilent(plan)

\* the current Task exists and is not marked silent
CurrentTaskVisible(p) ==
    LET id == get_current_task(p)
        pos == get_task(p, id)
    IN id # None /\ pos # << 0, 0 >> /\ ~p.blocks[pos[1]][pos[2]].silent

\* C16: a sub-turn whose current Task is silent appends no assistant message
\* to the Context; a sub-turn whose current Task is not silent appends the
\* assistant reply
C16_SilentSuppressesReply ==
    [][IsTurnStep =>
          /\ CurrentTaskSilent(plan) => history' = history
          /\ CurrentTaskVisible(plan) =>
                /\ Len(history') > Len(history)
                /\ history'[Len(history')].content \in { "reply", "internal_error" }]_vars

\* C17: when the model's output is malformed on every attempt, the model is
\* called no more often than the retry budget allows, the sub-turn returns
\* the degraded reply that describes the internal error, and it does not
\* raise to the caller
C17_DegradedReplyNeverRaises ==
    (degraded /\ last_op.op \in { "turn", "turn_raised" }) =>
        /\ model_calls <= single_turn_max_retries + 1
        /\ last_op.op = "turn"
        /\ history # << >>
        /\ history[Len(history)].content = "internal_error"

(***************************************************************************)
(* Properties of the Plan's index arguments (SpecPlan)                     *)
(***************************************************************************)
\* an index that names no block of the plan
OutOfRange(p, index) == index < 0 \/ index >= Len(p.blocks)

\* C18: jump_to, insert_block, remove_block and replace_block check their
\* index against the plan, and an index out of range is handled the same way
\* by all four: the plan is left as it is
C18_UniformBoundsPolicy ==
    \A i \in PlanIndices :
        /\ OutOfRange(plan, i) =>
              /\ jump_to(plan, i) = plan
              /\ remove_block(plan, i) = plan
              /\ replace_block(plan, i, HostBlock) = plan
        /\ (i < 0 \/ i > Len(plan.blocks)) => insert_block(plan, i, HostBlock) = plan

(***************************************************************************)
(* Properties of the state machine (SpecV2)                                *)
(***************************************************************************)
\* every task of batch cs has the status completed or failed
BatchDone(cs, status) ==
    \A i \in 1..Len(states[cs + 1]) : status[states[cs + 1][i]] \in { "completed", "failed" }

\* a step that is one update() call
IsUpdateStep == updates' = updates + 1

\* C19: a batch of tasks is complete exactly when each of its tasks is
\* completed or failed, and a turn moves the machine past the current batch,
\* by one batch, exactly when the batch is complete at the end of that turn
C19_AdvanceExactlyWhenDone ==
    [][IsUpdateStep /\ ~StateMachine_is_finished(current_state) =>
          /\ current_state' \in { current_state, current_state + 1 }
          /\ current_state' = current_state + 1 <=> BatchDone(current_state, task_status')]_vars

\* a batch left behind with a failed task in it
C19_Witness ==
    /\ current_state = 1
    /\ task_status["get_mood"] = "failed"
    /\ task_status["get_name"] = "completed"

\* C20: a task that is completed does not go back to pending, unless the
\* turn's info update (the explicit correction) names it
C20_CompletedStaysCompleted ==
    [][\A t \in BatchTaskIds :
          task_status[t] = "completed" /\ task_status'[t] = "pending" => t \in reset_tasks']_vars

\* get_name was completed by the first update (the second one counted an
\* attempt on the next batch) and is still completed after the second
C20_Witness ==
    /\ updates = 2
    /\ task_attempts["get_city"] > 0
    /\ task_status["get_name"] = "completed"

(***************************************************************************)
(* Properties of the State's audit log (SpecState)                         *)
(***************************************************************************)
\* C21: a State.set that changes the value of its key appends exactly one
\* audit entry (key, old value, new value, source task), a set that leaves
\* the value as it was appends none, also after a config load
C21_EverySetAudited ==
    [][sets' = sets + 1 /\ last_op'.op = "state_set" =>
          audit_log' = IF last_set'.old_value # last_set'.new_value
                       THEN Append(audit_log, last_set')
                       ELSE audit_log]_vars

(***************************************************************************)
(* Properties of the Context (SpecTalk)                                    *)
(***************************************************************************)
\* a is the beginning of b
IsPrefix(a, b) == Len(a) <= Len(b) /\ SubSeq(b, 1, Len(a)) = a

C23_RestoreWithoutConfigWarns ==
    LET ck == checkpoint(Conversation, FALSE)
        cg == from_checkpoint(ck)
    IN /\ [b \in 1..Len(cg.plan.blocks) |-> task_ids(cg.plan.blocks[b])] = ck.plan.blocks
       /\ \A b \in 1..Len(cg.plan.blocks) : \A i \in 1..Len(cg.plan.blocks[b]) :
              /\ cg.plan.blocks[b][i].expects = << >>
              /\ ~cg.plan.blocks[b][i].silent
       /\ cg.state = state
       /\ cg.plan.current_index = plan.current_index
       /\ from_checkpoint_warns(ck)

(***************************************************************************)
(* Properties of the completed list (SpecSrc)                              *)
(***************************************************************************)
\* the ids of the Tasks of the plan whose status is completed
CompletedTaskIds(p) ==
    UNION { { p.blocks[b][i].id : i \in { j \in 1..Len(p.blocks[b]) :
                                              is_completed(p.blocks[b][j]) } } :
            b \in 1..Len(p.blocks) }

\* C24: at every point of the conversation, also right after from_checkpoint,
\* the task ids ExecutionState lists as completed are exactly the ids of the
\* Tasks whose status is completed
C24_CompletedListMatchesTasks ==
    { exec_completed[i] : i \in 1..Len(exec_completed) } = CompletedTaskIds(plan)

(***************************************************************************)
(* Properties of tool execution (SpecTools)                                *)
(***************************************************************************)
\* the calls of a tools list that went through, and those that raised
OkCalls(tools) == SelectSeq(tools, LAMBDA c : ~c.raises)

FailedCalls(tools) == SelectSeq(tools, LAMBDA c : c.raises)

IsSubTurnStep == turns' = turns + 1 /\ last_op'.op \in { "turn", "turn_raised" }

\* C25: a tool call that raises leaves one entry in self._errors and nothing
\* else: the turn ends as the same turn without the failed calls does, in
\* the State, the UI queue (remaining tools), the plan (auto-completion,
\* advance), tone and adjustments (evaluation), the history and the status
C25_FailedToolIsSkipped ==
    [][IsSubTurnStep =>
        LET t == last_turn'
            failed == FailedCalls(t.tools)
            q == process_reply(t.reply, OkCalls(t.tools), t.gave_up)
        IN /\ errors' = errors \o [i \in 1..Len(failed) |->
                                     ToolError(failed[i].tool, get_current_task(plan))]
           /\ state' = q.state
           /\ pending_ui_tools' = q.pending
           /\ plan' = q.plan
           /\ tone' = q.tone
           /\ adjustments' = q.adjustments
           /\ history' = q.history
           /\ exec_status' = set_status(exec_status, q.target)]_vars

\* a turn went through whose first tool call raised and whose second, a UI
\* tool, was queued
C25_Witness ==
    /\ last_op.op = "turn"
    /\ last_turn.tools = << ToolCall("fetch", TRUE), ToolCall("show_form", FALSE) >>
    /\ Len(errors) > 0
    /\ state["extra"] # "found"
    /\ pending_ui_tools # << >>

\* the UI tools among the calls of a tools list, in order
UiCalls(tools) ==
    LET ui == SelectSeq(tools, LAMBDA c : c.tool \in UiTools)
    IN [i \in 1..Len(ui) |-> ui[i].tool]

\* whether a call of fetch, whose handler returns {"extra": "found"}, went through
FetchReturned(tools) == \E i \in 1..Len(tools) : tools[i] = ToolCall("fetch", FALSE)

\* C26: a UI tool that is executed puts exactly one render request in the
\* queue and gives the State nothing, and the next get_pending_ui_tools()
\* returns the queue and empties it; a function tool puts nothing in the
\* queue and the dict it returns is in the State (unless an Adjustment of the
\* same turn has set the key again)
C26_UiQueuedFunctionMerged ==
    [][/\ IsSubTurnStep =>
            LET ok == OkCalls(last_turn'.tools)
            IN /\ pending_ui_tools' = pending_ui_tools \o UiCalls(ok)
               /\ (FetchReturned(ok) /\ \A i \in 1..Len(fired_names') :
                                             adjustments[fired_names'[i]].name # "always")
                      => state'["extra"] = "found"
               /\ (~FetchReturned(ok) /\ state["extra"] # "found")
                      => state'["extra"] # "found"
       /\ last_op'.op = "get_pending_ui_tools" =>
            /\ returned_ui_tools' = pending_ui_tools
            /\ pending_ui_tools' = << >>]_vars

\* the host has taken the render request of a UI tool that a turn queued next
\* to a function tool whose dict is in the State
C26_Witness ==
    /\ last_op.op = "get_pending_ui_tools"
    /\ returned_ui_tools = << "show_form" >>
    /\ state["extra"] = "found"

(***************************************************************************)
(* Properties of independent instances (SpecIso)                           *)
(***************************************************************************)
\* what instance i observes: its State, its tone, the tools available to it
\* and its queue of pending UI tools
IsoView(i) ==
    [state |-> cgs[i].state, tone |-> IsoTone(i),
     tools |-> global_registry, pending |-> cgs[i].pending]

IsoViewAfter(i) ==
    [state |-> cgs'[i].state, tone |-> tone_lists'[cgs'[i].tone_ref],
     tools |-> global_registry', pending |-> cgs'[i].pending]

\* C27: an operation on one instance leaves what every other instance
\* observes as it was
C27_InstancesIsolated ==
    [][\A i \in Instances : i # iso_op'.inst => IsoViewAfter(i) = IsoView(i)]_vars

(***************************************************************************)
(* Properties of validation (SpecValidate)                                 *)
(***************************************************************************)
\* C28: validation is total: whatever string, number, boolean or null the
\* value is and whatever the type of the expectation, the call returns a
\* (valid, error) pair and raises nothing
C28_ValidationTotal == v_out # NotCalled => v_out.raised = ""

(***************************************************************************)
(* Properties of the order of the steps of a turn (SpecTools)              *)
(***************************************************************************)
\* the Tasks of the current block that expect nothing and are pending
PendingAutoTasks(p) ==
    IF HasCurrentBlock(p)
    THEN { i \in 1..Len(get_current_block(p)) :
             /\ get_current_block(p)[i].expects = << >>
             /\ ~is_completed(get_current_block(p)[i]) }
    ELSE { }

RECURSIVE ApplyEvery(_, _, _)
ApplyEvery(actions, j, acc) ==
    IF j > Len(actions) THEN acc
    ELSE ApplyEvery(actions, j + 1,
            IF actions[j].legacy THEN ExecuteDict(actions[j], acc)
            ELSE ExecuteTyped(actions[j], acc))

\* the tone after every action of the adjustments that fired, in the order
\* they fired
RECURSIVE ToneAfterFired(_, _, _)
ToneAfterFired(fired, k, tn) ==
    IF k > Len(fired) THEN tn
    ELSE ToneAfterFired(fired, k + 1,
            ApplyEvery(adjustments[fired[k]].actions, 1,
                       [plan |-> plan, state |-> state, tone |-> tn, jumped |-> FALSE]).tone)

\* C30: when an Adjustment fires, every action of its list is applied, in
\* declaration order, none is skipped: as seen on the tone, which only the
\* actions change, after a turn it is what all the actions of the fired
\* adjustments leave
C30_EveryActionApplied ==
    [][IsTurnStep => tone' = ToneAfterFired(fired_names', 1, tone)]_vars

(***************************************************************************)
(* Properties of the normalized result list (SpecNormalize)                *)
(***************************************************************************)
\* the entries of results with key k
EntriesOf(results, k) == { results[i] : i \in { j \in 1..Len(results) : results[j].key = k } }

C32_FiredStaysFiredAfterRestore ==
    [][ (IsTurnStep /\ restores > 0) =>
            \A i \in 1..Len(fired_names') :
                adjustments'[fired_names'[i]].name \notin ck_fired ]_vars

(***************************************************************************)
(* Properties of the Tasks a reply can complete (SpecAdv)                  *)
(***************************************************************************)
\* C33: a processed reply leaves every Task outside the current Block as it
\* was (checked on the turns in which no Adjustment fires, so that only the
\* reply's task_results, the auto-completion and the advance touch the Plan)
C33_OnlyCurrentBlockTasksChange ==
    [][ (IsTurnStep /\ fired_names' = << >>) =>
            /\ Len(plan'.blocks) = Len(plan.blocks)
            /\ \A b \in 1..Len(plan.blocks) :
                  b # plan.current_index + 1 => plan'.blocks[b] = plan.blocks[b] ]_vars

(***************************************************************************)
(* Properties of the calls on a complete conversation (SpecDone)           *)
(***************************************************************************)
\* a chat() or handle_tool_response() call was made on a conversation whose
\* status was complete
IsCallOnComplete ==
    /\ exec_status = "complete"
    /\ chat_pc = "idle"
    /\ turns' = turns + 1 \/ sets' = sets + 1

\* C34: chat() and handle_tool_response() called on a conversation whose
\* status is complete return normally and leave the status complete
C34_CallsOnCompleteReturn ==
    [][ IsCallOnComplete =>
            /\ last_op'.op \in { "turn", "handle_tool_response" }
            /\ exec_status' = "complete" ]_vars

(***************************************************************************)
(* Properties of get_state (SpecRead)                                      *)
(***************************************************************************)
\* C35: a get_state() call leaves the queue of pending UI tool render
\* requests as it was, so the next get_pending_ui_tools() returns what it
\* would have returned without the call
C35_GetStateKeepsUiQueue ==
    [][ last_op'.op = "get_state" => pending_ui_tools' = pending_ui_tools ]_vars

(***************************************************************************)
(* Properties of the cursor under insert_block and remove_block (SpecPlan) *)
(***************************************************************************)
\* the step is an insert_block or remove_block call whose index is below
\* current_index
IsEditBelowCursor ==
    \E i \in 0..(plan.current_index - 1) :
        \/ last_op'.op = "insert_block" /\ plan' = insert_block(plan, i, HostBlock)
        \/ last_op'.op = "remove_block" /\ i < Len(plan.blocks) /\ plan' = remove_block(plan, i)

\* C36: insert_block or remove_block at an index below current_index leaves
\* the same Block current; a finished Plan stays finished
C36_SameBlockCurrent ==
    [][ (plan_ops' = plan_ops + 1 /\ IsEditBelowCursor) =>
            IF HasCurrentBlock(plan)
            THEN HasCurrentBlock(plan') /\ get_current_block(plan') = get_current_block(plan)
            ELSE ~HasCurrentBlock(plan') ]_vars

(***************************************************************************)
(* Properties of a failed model call (Spec)                                *)
(***************************************************************************)
\* a step of a pass of chat()'s loop whose model call failed: _process_reply
\* on the "Error: ..." reply, or the completion check that follows it
IsFailedCallStep ==
    \/ pc = "loop" /\ pc' = "check" /\ reply_text' = "Error"
    \/ pc = "check" /\ pc' # "check" /\ reply_text = "Error"

\* C37: a turn whose model call failed completes no Task and does not
\* advance the Plan
C37_FailedCallChangesNoTask ==
    [][ IsFailedCallStep => completed' = completed /\ block' = block ]_vars

(***************************************************************************)
(* Properties of what chat() returns (Spec)                                *)
(***************************************************************************)
\* C38: a chat() call that has returned has returned a reply object, never
\* no value
C38_ChatReturnsReply ==
    (pc = "idle" /\ ret # "pending") => ret = "reply"

(***************************************************************************)
(* Properties of reload_config (SpecReload)                                *)
(***************************************************************************)
\* a step made outside chat() that adds no message: a reload_config call
IsReloadStep == pc = "idle" /\ pc' = "idle" /\ messages' = messages

\* C39: reload_config leaves the collected data, the message history, the
\* block index and the set of completed Tasks exactly as they were
C39_ReloadPreservesConversation ==
    [][ IsReloadStep =>
            /\ data' = data
            /\ block' = block
            /\ completed' = completed ]_vars

(***************************************************************************)
(* Properties of the attempts of a batch Task (SpecV2)                     *)
(***************************************************************************)
\* the Task never had a valid result
NoValidResult(t) == \A i \in 1..Len(task_results) : task_results[i].task_id # t

\* C40: a Task of the current batch that has been attempted max_attempts
\* times without a valid result is marked failed (so that the batch gets done
\* and the flow advances past it)
C40_ExhaustedTaskIsFailed ==
    \A t \in get_current_tasks(current_state, task_status) :
        (task_attempts[t] >= V2Tasks[t].max_attempts /\ NoValidResult(t)) =>
            task_status[t] = "failed"

====
